---------------------------- MODULE Spec2Model ----------------------------
(***************************************************************************)
(* Model of the aidev orchestrator: the ToolExecutor sandbox               *)
(* (src/src/aidev/tools.py), the tool-call loop of                         *)
(* AnthropicProvider.implement_spec with its with_retry wrapper            *)
(* (src/src/aidev/providers.py), the configuration                         *)
(* (src/src/aidev/config.py), the implement, review and patch commands     *)
(* (src/src/aidev/cli.py), the tool-call loop of the top-level script      *)
(* (src/aidev.py) with its tools (src/tools.py), and two invocations       *)
(* writing into one repository at the same time.                           *)
(*                                                                         *)
(* Strings whose characters matter (paths, commands) are sequences of      *)
(* one-character strings, so that str.startswith and str.strip are         *)
(* computed character by character.                                        *)
(***************************************************************************)
EXTENDS Integers, Sequences, FiniteSets, Bags, TLC

VARIABLES
    fs,               \* the filesystem: absolute path -> node
    cfg,              \* the AIDevConfig of the session
    repo_root,        \* ToolExecutor.repo_root
    allowed_commands, \* ToolExecutor.allowed_commands: a list, kept as
                      \* the bag of its elements
    opsDone,          \* number of ToolExecutor operations called directly
    toolCall,         \* the last ToolExecutor operation and what it did
    toolResult,       \* the envelope that operation returned
    spawned,          \* number of subprocess.run invocations so far
    environ,          \* os.environ of the process
    writers           \* the write_file calls of concurrent invocations

toolVars ==
    <<fs, cfg, repo_root, allowed_commands, opsDone, toolCall, toolResult,
      spawned, environ, writers>>

VARIABLES
    func,             \* the function called through with_retry
    pc,               \* position of the provider call
    attempt,          \* with_retry: the loop index of the wrapper
    sleeps,           \* with_retry: the delays slept so far, in order
    ret,              \* what the wrapper returned or raised to its caller
    capArg,           \* implement_spec: the max_iterations argument
    max_iterations,   \* implement_spec: the effective cap
    iteration,        \* implement_spec: the loop index
    messages,         \* implement_spec: the conversation
    request,          \* the conversation sent with the last model call
    response,         \* content of the last model response received
    blockIdx,         \* index of the next content block to process
    tool_results,     \* implement_spec: results of the current response
    text_content,     \* implement_spec: texts of the current response
    modelCalls,       \* number of client.messages.create calls issued
    callLog           \* how each model call ended, in order

driverVars ==
    <<func, pc, attempt, sleeps, ret, capArg, max_iterations, iteration,
      messages, request, response, blockIdx, tool_results, text_content,
      modelCalls, callLog>>

VARIABLES
    cli               \* the CLI invocation: its command, options, position,
                      \* what it printed, constructed and wrote, and its
                      \* exit status

vars == <<toolVars, driverVars, cli>>

(***************************************************************************)
(* Bounds                                                                  *)
(***************************************************************************)
MaxPathLen == 2      \* components in a path string handed to a tool
MaxOps     == 2      \* successive operations on one ToolExecutor
MaxPad     == 1      \* whitespace characters around a command
MaxCap     == 2      \* largest iteration cap of implement_spec
MaxBlocks  == 2      \* content blocks in one model response
MaxDiffLines == 3    \* body lines of a diff git prints

SeqsUpTo(S, n) == UNION {[1..k -> S] : k \in 0..n}

(***************************************************************************)
(* Characters and strings                                                  *)
(***************************************************************************)
Whitespace == {" ", "\t", "\n"}

\* str.startswith: p is a prefix of s
IsPrefix(p, s) == Len(p) <= Len(s) /\ SubSeq(s, 1, Len(p)) = p

RECURSIVE LStrip(_)
LStrip(s) == IF s # <<>> /\ Head(s) \in Whitespace THEN LStrip(Tail(s)) ELSE s

RECURSIVE RStrip(_)
RStrip(s) ==
    IF s # <<>> /\ s[Len(s)] \in Whitespace
    THEN RStrip(SubSeq(s, 1, Len(s) - 1)) ELSE s

\* str.strip
Strip(s) == RStrip(LStrip(s))

Range(s) == {s[i] : i \in DOMAIN s}

(***************************************************************************)
(* Paths: a path is a sequence of names, a name a sequence of characters   *)
(***************************************************************************)
NmR    == <<"r">>
NmR2   == <<"r", "2">>
NmF    == <<"f">>
NmL    == <<"l">>
NmO    == <<"o">>
DotDot == <<".", ".">>
BakSuffix == <<".", "b", "a", "k">>

Root == <<>>

RECURSIVE JoinNames(_)
JoinNames(p) == IF p = <<>> THEN <<>> ELSE <<"/">> \o Head(p) \o JoinNames(Tail(p))

\* str(Path)
PathStr(p) == IF p = Root THEN <<"/">> ELSE JoinNames(p)

Parent(p) == IF p = Root THEN Root ELSE SubSeq(p, 1, Len(p) - 1)
Name(p)   == IF p = Root THEN <<>> ELSE p[Len(p)]

\* the target is dir itself or lies below it, component by component
IsWithin(dir, p) == Len(dir) <= Len(p) /\ SubSeq(p, 1, Len(dir)) = dir

(***************************************************************************)
(* Filesystem nodes                                                        *)
(***************************************************************************)
DirNode       == [kind |-> "dir"]
FileNode(c)   == [kind |-> "file", content |-> c]
LinkNode(t)   == [kind |-> "link", target |-> t]

Exists(f, p)  == p \in DOMAIN f
IsDir(f, p)   == Exists(f, p) /\ f[p].kind = "dir"
IsFile(f, p)  == Exists(f, p) /\ f[p].kind = "file"
IsLink(f, p)  == Exists(f, p) /\ f[p].kind = "link"

\* st_size of a file's content; contents are named, their sizes are what
\* read_file compares with its cap
SizeCap == 1000000
ContentSize(c) ==
    CASE c = "capsize" -> SizeCap
      [] c = "oversize" -> SizeCap + 1
      [] OTHER -> 2
StSize(f, p) == IF IsFile(f, p) THEN ContentSize(f[p].content) ELSE 4096

\* Path.resolve(): '..' and symlinks are resolved left to right, a missing
\* component is kept (non-strict); link targets are absolute resolved paths
RECURSIVE Realpath(_, _, _)
Realpath(f, cur, rest) ==
    IF rest = <<>> THEN cur
    ELSE LET nm == Head(rest)
             np == Append(cur, nm)
         IN  IF nm = DotDot THEN Realpath(f, Parent(cur), Tail(rest))
             ELSE IF IsLink(f, np) THEN Realpath(f, f[np].target, Tail(rest))
             ELSE Realpath(f, np, Tail(rest))

\* base / path: an absolute path replaces the base
JoinPath(base, path) == IF path.abs THEN path.parts ELSE base \o path.parts

(***************************************************************************)
(* Configuration (src/src/aidev/config.py)                                 *)
(***************************************************************************)
DefaultAllowedCommands ==
  << <<"p", "y", "t", "e", "s", "t">>,
     <<"p", "y", "t", "h", "o", "n", " ", "-", "m", " ", "p", "y", "t", "e", "s", "t">>,
     <<"p", "i", "p", " ", "i", "n", "s", "t", "a", "l", "l">>,
     <<"n", "p", "m", " ", "i", "n", "s", "t", "a", "l", "l">>,
     <<"n", "p", "m", " ", "t", "e", "s", "t">>,
     <<"r", "u", "f", "f">>,
     <<"b", "l", "a", "c", "k">>,
     <<"m", "y", "p", "y">>,
     <<"c", "a", "r", "g", "o", " ", "t", "e", "s", "t">>,
     <<"c", "a", "r", "g", "o", " ", "b", "u", "i", "l", "d">>,
     <<"g", "o", " ", "t", "e", "s", "t">>,
     <<"g", "o", " ", "b", "u", "i", "l", "d">> >>

DefaultTimeout == 90
DefaultMaxTimeout == 300

ToolConfig ==
    [allowed_commands |-> DefaultAllowedCommands,
     default_timeout  |-> DefaultTimeout,
     max_timeout      |-> DefaultMaxTimeout]

(***************************************************************************)
(* ToolExecutor (src/src/aidev/tools.py)                                   *)
(***************************************************************************)
NmPackageJson == <<"p", "a", "c", "k", "a", "g", "e", ".", "j", "s", "o", "n">>

package_files ==
  << [file |-> NmPackageJson,
      tools |-> << <<"n", "p", "m", " ", "i", "n", "s", "t", "a", "l", "l">>,
                  <<"n", "p", "m", " ", "t", "e", "s", "t">>,
                  <<"n", "p", "m", " ", "r", "u", "n">>,
                  <<"y", "a", "r", "n", " ", "i", "n", "s", "t", "a", "l", "l">>,
                  <<"y", "a", "r", "n", " ", "t", "e", "s", "t">> >>],
     [file |-> <<"r", "e", "q", "u", "i", "r", "e", "m", "e", "n", "t", "s", ".", "t", "x", "t">>,
      tools |-> << <<"p", "i", "p", " ", "i", "n", "s", "t", "a", "l", "l", " ", "-", "r", " ", "r", "e", "q", "u", "i", "r", "e", "m", "e", "n", "t", "s", ".", "t", "x", "t">>,
                  <<"p", "y", "t", "h", "o", "n", " ", "-", "m", " ", "p", "i", "p", " ", "i", "n", "s", "t", "a", "l", "l">> >>],
     [file |-> <<"p", "y", "p", "r", "o", "j", "e", "c", "t", ".", "t", "o", "m", "l">>,
      tools |-> << <<"p", "i", "p", " ", "i", "n", "s", "t", "a", "l", "l", " ", "-", "e", " ", ".">>,
                  <<"p", "o", "e", "t", "r", "y", " ", "i", "n", "s", "t", "a", "l", "l">>,
                  <<"p", "o", "e", "t", "r", "y", " ", "r", "u", "n">> >>],
     [file |-> <<"C", "a", "r", "g", "o", ".", "t", "o", "m", "l">>,
      tools |-> << <<"c", "a", "r", "g", "o", " ", "b", "u", "i", "l", "d">>,
                  <<"c", "a", "r", "g", "o", " ", "t", "e", "s", "t">>,
                  <<"c", "a", "r", "g", "o", " ", "r", "u", "n">> >>],
     [file |-> <<"g", "o", ".", "m", "o", "d">>,
      tools |-> << <<"g", "o", " ", "b", "u", "i", "l", "d">>,
                  <<"g", "o", " ", "t", "e", "s", "t">>,
                  <<"g", "o", " ", "r", "u", "n">> >>],
     [file |-> <<"G", "e", "m", "f", "i", "l", "e">>,
      tools |-> << <<"b", "u", "n", "d", "l", "e", " ", "i", "n", "s", "t", "a", "l", "l">>,
                  <<"b", "u", "n", "d", "l", "e", " ", "e", "x", "e", "c">> >>] >>

\* ToolExecutor._get_repo_root: the resolved target repository
RepoRoot == <<NmR>>

\* ToolExecutor._build_allowed_commands: the configured list, extended by
\* the tools of every manifest found at the top level of the repository
RECURSIVE ExtendDetected(_, _, _, _)
ExtendDetected(commands, f, root, i) ==
    IF i > Len(package_files) THEN commands
    ELSE ExtendDetected(
             IF Exists(f, Append(root, package_files[i].file))
             THEN commands \o package_files[i].tools ELSE commands,
             f, root, i + 1)

\* a list as the bag of its elements: the order is left out, how often an
\* element occurs is kept
ListBag(commands) ==
    [x \in Range(commands) |->
        Cardinality({i \in DOMAIN commands : commands[i] = x})]

\* list(set(commands)): each element once, in no particular order
ListOfSet(commands) == SetToBag(Range(commands))

\* _build_allowed_commands returning the extended list as it is
build_allowed_commands_keep_duplicates(c, f, root) ==
    ListBag(IF c.auto_detect_tools
            THEN ExtendDetected(c.tools.allowed_commands, f, root, 1)
            ELSE c.tools.allowed_commands)

\* ToolExecutor._build_allowed_commands
build_allowed_commands(c, f, root) ==
    ListOfSet(IF c.auto_detect_tools
              THEN ExtendDetected(c.tools.allowed_commands, f, root, 1)
              ELSE c.tools.allowed_commands)

\* a failure envelope {"ok": False, "error": ...}; an error text is the
\* tuple of its fixed part and the values formatted into it
Err(e) == [ok |-> FALSE, error |-> e]

\* ToolExecutor._jail_path: the resolved target, or ValueError
jail_path(root, f, path) ==
    LET target == Realpath(f, Root, JoinPath(root, path))
    IN  [raised |-> ~IsPrefix(PathStr(root), PathStr(target)),
         target |-> target]

\* Path.relative_to(repo_root): the components below the root
RelativeTo(p, root) == SubSeq(p, Len(root) + 1, Len(p))

\* read_file refusing a file of exactly the cap size
read_file_cap_exclusive(root, f, path) ==
    LET j == jail_path(root, f, path)
        t == j.target
        R(res, rd) ==
            [result |-> res, fs |-> f, target |-> t, passed |-> ~j.raised,
             read |-> rd]
    IN  IF j.raised THEN R(Err(<<"escapes repository jail">>), {})
        ELSE IF ~Exists(f, t) THEN R(Err(<<"File not found">>), {})
        ELSE IF StSize(f, t) >= SizeCap THEN R(Err(<<"File too large (>1MB)">>), {})
        ELSE IF ~IsFile(f, t) THEN R(Err(<<"Is a directory">>), {})
        ELSE IF ~IsWithin(root, t) THEN R(Err(<<"is not in the subpath">>), {t})
        ELSE R([ok |-> TRUE, path |-> RelativeTo(t, root),
                content |-> f[t].content,
                size |-> ContentSize(f[t].content)], {t})

\* ToolExecutor.read_file.  passed: _jail_path returned; read: the files
\* whose content was read
read_file(root, f, path) ==
    LET j == jail_path(root, f, path)
        t == j.target
        R(res, rd) ==
            [result |-> res, fs |-> f, target |-> t, passed |-> ~j.raised,
             read |-> rd]
    IN  IF j.raised THEN R(Err(<<"escapes repository jail">>), {})
        ELSE IF ~Exists(f, t) THEN R(Err(<<"File not found">>), {})
        ELSE IF StSize(f, t) > SizeCap THEN R(Err(<<"File too large (>1MB)">>), {})
        ELSE IF ~IsFile(f, t) THEN R(Err(<<"Is a directory">>), {})
        ELSE IF ~IsWithin(root, t) THEN R(Err(<<"is not in the subpath">>), {t})
        ELSE R([ok |-> TRUE, path |-> RelativeTo(t, root),
                content |-> f[t].content,
                size |-> ContentSize(f[t].content)], {t})

\* Path.mkdir(parents=True, exist_ok=True)
RECURSIVE MkdirParents(_, _)
MkdirParents(f, p) ==
    IF Exists(f, p) THEN [raised |-> ~IsDir(f, p), fs |-> f]
    ELSE LET up == MkdirParents(f, Parent(p))
         IN  IF up.raised THEN [raised |-> TRUE, fs |-> f]
             ELSE [raised |-> FALSE, fs |-> (p :> DirNode) @@ up.fs]

\* file_path.with_suffix(file_path.suffix + ".bak")
BackupPath(t) == Append(Parent(t), Name(t) \o BakSuffix)

\* shutil.copy2(src, dst) of a regular file src: into dst when dst is a
\* directory, else onto dst
Copy2(f, src, dst) ==
    LET to == IF IsDir(f, dst) THEN Append(dst, Name(src)) ELSE dst
    IN  IF ~IsFile(f, src) \/ IsDir(f, to) THEN [raised |-> TRUE, fs |-> f]
        ELSE [raised |-> FALSE, fs |-> (to :> FileNode(f[src].content)) @@ f]

\* Path.write_text
WriteText(f, t, content) == (t :> FileNode(content)) @@ f

\* write_file creating the parent directories before the jail is consulted
write_file_mkdir_first(root, f, path, content) ==
    LET j   == jail_path(root, f, path)
        t   == j.target
        mk  == MkdirParents(f, Parent(t))
        had == Exists(mk.fs, t)
        bk  == IF had THEN Copy2(mk.fs, t, BackupPath(t))
               ELSE [raised |-> FALSE, fs |-> mk.fs]
        wr  == WriteText(bk.fs, t, content)
        R(res, g) ==
            [result |-> res, fs |-> g, target |-> t, passed |-> ~j.raised,
             read |-> {}]
    IN  IF mk.raised THEN R(Err(<<"File exists">>), mk.fs)
        ELSE IF j.raised THEN R(Err(<<"escapes repository jail">>), mk.fs)
        ELSE IF bk.raised THEN R(Err(<<"Is a directory">>), bk.fs)
        ELSE IF ~IsWithin(root, t) THEN R(Err(<<"is not in the subpath">>), wr)
        ELSE IF had
             THEN R([ok |-> TRUE, path |-> RelativeTo(t, root),
                     size |-> ContentSize(content),
                     backup |-> RelativeTo(BackupPath(t), root)], wr)
             ELSE R([ok |-> TRUE, path |-> RelativeTo(t, root),
                     size |-> ContentSize(content)], wr)

\* ToolExecutor.write_file
write_file(root, f, path, content) ==
    LET j   == jail_path(root, f, path)
        t   == j.target
        mk  == MkdirParents(f, Parent(t))
        had == Exists(mk.fs, t)
        bk  == IF had THEN Copy2(mk.fs, t, BackupPath(t))
               ELSE [raised |-> FALSE, fs |-> mk.fs]
        wr  == WriteText(bk.fs, t, content)
        R(res, g) ==
            [result |-> res, fs |-> g, target |-> t, passed |-> ~j.raised,
             read |-> {}]
    IN  IF j.raised THEN R(Err(<<"escapes repository jail">>), f)
        ELSE IF mk.raised THEN R(Err(<<"File exists">>), mk.fs)
        ELSE IF bk.raised THEN R(Err(<<"Is a directory">>), bk.fs)
        ELSE IF ~IsWithin(root, t) THEN R(Err(<<"is not in the subpath">>), wr)
        ELSE IF had
             THEN R([ok |-> TRUE, path |-> RelativeTo(t, root),
                     size |-> ContentSize(content),
                     backup |-> RelativeTo(BackupPath(t), root)], wr)
             ELSE R([ok |-> TRUE, path |-> RelativeTo(t, root),
                     size |-> ContentSize(content)], wr)

\* the gate comparing for equality instead of for a prefix
is_command_allowed_exact(allowed, command) ==
    \E a \in BagToSet(allowed) : a = Strip(command)

\* ToolExecutor._is_command_allowed
is_command_allowed(allowed, command) ==
    \E a \in BagToSet(allowed) : IsPrefix(a, Strip(command))

\* timeout = timeout or default_timeout; timeout = min(timeout, max_timeout)
\* (an absent timeout is <<>>, a given one <<n>>)
EffectiveTimeout(c, timeout) ==
    LET t == IF timeout = <<>> \/ timeout = <<0>>
             THEN c.tools.default_timeout ELSE timeout[1]
    IN  IF t < c.tools.max_timeout THEN t ELSE c.tools.max_timeout

\* str of a sequence of characters
RECURSIVE Flatten(_)
Flatten(cs) == IF cs = <<>> THEN "" ELSE Head(cs) \o Flatten(Tail(cs))

\* env={**os.environ, "PYTHONPATH": str(self.repo_root)}
SubprocessEnv(env, root) ==
    [k \in DOMAIN env \cup {"PYTHONPATH"} |->
        IF k = "PYTHONPATH" THEN Flatten(PathStr(root)) ELSE env[k]]

\* a captured stream: lead characters of other output, then the text; the
\* texts are shorter than OutputCap
OutputCap == 8000
Stream(lead, text) == [lead |-> lead, text |-> text]
EmptyStream == Stream(0, "")
StreamLen(x) == x.lead + Len(x.text)

\* the slice [-8001:]
LastChars_one_more(x) ==
    IF StreamLen(x) = 0 THEN EmptyStream
    ELSE LET start == IF StreamLen(x) - (OutputCap + 1) > 0
                      THEN StreamLen(x) - (OutputCap + 1) ELSE 0
         IN  Stream(x.lead - start, x.text)

\* proc.stdout[-8000:] if proc.stdout else "": the slice starts at
\* len - 8000, or at 0 when that is negative
LastChars(x) ==
    IF StreamLen(x) = 0 THEN EmptyStream
    ELSE LET start == IF StreamLen(x) - OutputCap > 0
                      THEN StreamLen(x) - OutputCap ELSE 0
         IN  Stream(x.lead - start, x.text)

\* the lengths of output before the text: none, up to the cap with the
\* text included, and beyond it
StreamLeads == {0, OutputCap - 3, OutputCap}

\* what a process started with environment env can print: a text of its
\* own after any amount of other output, or any value of its environment
ProcessOutputs(env) ==
    {Stream(n, "out") : n \in StreamLeads}
    \cup {Stream(0, env[k]) : k \in DOMAIN env}

\* what subprocess.run(command, shell=True, timeout=t, env=env) does.
\* exit0, exit1: the shell ended with that status having printed stdout
\* and stderr.  timeout: TimeoutExpired; run() kills the shell it started
\* and waits for it, the children the shell had started keep running.
\* oserror: subprocess.run raised another exception (the shell could not
\* be started, the output could not be decoded as text)
SubprocessOutcomes(env) ==
    {[kind |-> "exit0", stdout |-> o, stderr |-> EmptyStream,
      children |-> 0] : o \in ProcessOutputs(env)}
    \cup {[kind |-> "exit1", stdout |-> EmptyStream, stderr |-> o,
           children |-> 0] : o \in ProcessOutputs(env)}
    \cup {[kind |-> "exit1", stdout |-> Stream(OutputCap, "out"),
           stderr |-> Stream(OutputCap - 2, "out"), children |-> 0]}
    \cup {[kind |-> "timeout", stdout |-> EmptyStream,
           stderr |-> EmptyStream, children |-> n] : n \in 0..1}
    \cup {[kind |-> "oserror", stdout |-> EmptyStream,
           stderr |-> EmptyStream, children |-> 0]}

\* a timeout that is not positive has expired when subprocess.run first
\* looks at it
OutcomeFits(outcome, t) == t <= 0 => outcome.kind \in {"timeout", "oserror"}

\* bash echoing the configured list instead of the session's allowed list
bash_echo_configured(c, allowed, command, timeout, outcome) ==
    LET cmd == Strip(command)
    IN  IF ~is_command_allowed(allowed, cmd)
        THEN [result |-> [ok |-> FALSE,
                          error |-> <<"Command not allowed", cmd>>,
                          allowed_prefixes |->
                              ListOfSet(c.tools.allowed_commands)],
              run |-> FALSE, command |-> cmd, timeout |-> <<>>, running |-> 0]
        ELSE LET t == EffectiveTimeout(c, timeout)
             IN  [result |->
                      CASE outcome.kind = "exit0" ->
                               [ok |-> TRUE, returncode |-> 0,
                                stdout |-> LastChars(outcome.stdout),
                                stderr |-> LastChars(outcome.stderr),
                                duration |-> "d"]
                        [] outcome.kind = "exit1" ->
                               [ok |-> FALSE, returncode |-> 1,
                                stdout |-> LastChars(outcome.stdout),
                                stderr |-> LastChars(outcome.stderr),
                                duration |-> "d"]
                        [] outcome.kind = "timeout" ->
                               Err(<<"Command timed out after", t>>)
                        [] OTHER -> Err(<<"OSError">>),
                  run |-> TRUE, command |-> cmd, timeout |-> <<t>>,
                  running |-> IF outcome.kind = "timeout"
                              THEN outcome.children ELSE 0]

\* ToolExecutor.bash; outcome is what subprocess.run did with the command.
\* running: the processes started for the command that are alive when
\* bash returns
bash(c, allowed, command, timeout, outcome) ==
    LET cmd == Strip(command)
    IN  IF ~is_command_allowed(allowed, cmd)
        THEN [result |-> [ok |-> FALSE,
                          error |-> <<"Command not allowed", cmd>>,
                          allowed_prefixes |-> allowed],
              run |-> FALSE, command |-> cmd, timeout |-> <<>>, running |-> 0]
        ELSE LET t == EffectiveTimeout(c, timeout)
             IN  [result |->
                      CASE outcome.kind = "exit0" ->
                               [ok |-> TRUE, returncode |-> 0,
                                stdout |-> LastChars(outcome.stdout),
                                stderr |-> LastChars(outcome.stderr),
                                duration |-> "d"]
                        [] outcome.kind = "exit1" ->
                               [ok |-> FALSE, returncode |-> 1,
                                stdout |-> LastChars(outcome.stdout),
                                stderr |-> LastChars(outcome.stderr),
                                duration |-> "d"]
                        [] outcome.kind = "timeout" ->
                               Err(<<"Command timed out after", t>>)
                        [] OTHER -> Err(<<"OSError">>),
                  run |-> TRUE, command |-> cmd, timeout |-> <<t>>,
                  running |-> IF outcome.kind = "timeout"
                              THEN outcome.children ELSE 0]


\* str.split('\n')
RECURSIVE SplitLines(_)
SplitLines(s) ==
    LET nl == {i \in DOMAIN s : s[i] = "\n"}
    IN  IF nl = {} THEN <<s>>
        ELSE LET i == CHOOSE k \in nl : \A m \in nl : k <= m
             IN  <<SubSeq(s, 1, i - 1)>> \o SplitLines(SubSeq(s, i + 1, Len(s)))

\* sum(1 for line in lines if line.startswith(c) and not
\* line.startswith(c * 3))
CountMarked(lines, c) ==
    Cardinality({i \in DOMAIN lines :
                    /\ IsPrefix(<<c>>, lines[i])
                    /\ ~IsPrefix(<<c, c, c>>, lines[i])})

\* what subprocess.run of a git command with timeout=20 does: git exits 0
\* having printed stdout, exits non-zero having printed stderr, runs
\* longer than the timeout, or cannot be started
GitOutcomes(stdouts) ==
    {[kind |-> "exit0", stdout |-> o, stderr |-> <<>>] : o \in stdouts}
    \cup {[kind |-> "exit1", stdout |-> <<>>, stderr |-> e] :
             e \in {<<>>, <<"f", "a", "t", "a", "l">>}}
    \cup {[kind |-> k, stdout |-> <<>>, stderr |-> <<>>] :
             k \in {"timeout", "oserror"}}

\* ToolExecutor.git_diff
git_diff(staged, outcome) ==
    CASE outcome.kind = "exit0" ->
             LET lines == SplitLines(outcome.stdout)
             IN  [ok |-> TRUE, diff |-> outcome.stdout,
                  stats |-> [additions |-> CountMarked(lines, "+"),
                             deletions |-> CountMarked(lines, "-")],
                  staged |-> staged]
      [] outcome.kind = "exit1" -> Err(<<outcome.stderr>>)
      [] outcome.kind = "timeout" -> Err(<<"Command timed out after", 20>>)
      [] OTHER -> Err(<<"OSError">>)

\* ToolExecutor.git_apply; git changes the index (or the working tree)
\* itself, the call only reports how git ended
git_apply(patch, staged, outcome) ==
    CASE outcome.kind = "exit0" ->
             [ok |-> TRUE,
              message |-> IF staged THEN "Patch applied successfully (staged)"
                          ELSE "Patch applied successfully"]
      [] outcome.kind = "exit1" -> Err(<<outcome.stderr>>)
      [] outcome.kind = "timeout" -> Err(<<"Command timed out after", 20>>)
      [] OTHER -> Err(<<"OSError">>)

\* Path.glob(pattern) under the repository root for the patterns "*" (the
\* entries of the root), "**/*" (every entry below it; symlinks are not
\* descended into), "../*" (the entries of the root's parent) and "/*" (an
\* absolute pattern, which glob refuses).  at: where the entry is; rel:
\* entry.relative_to(repo_root), computed on the unresolved path
Glob(f, root, pattern) ==
    CASE pattern = "*" ->
             {[at |-> q, rel |-> <<Name(q)>>] :
                 q \in {x \in DOMAIN f : x # Root /\ Parent(x) = root}}
      [] pattern = "**/*" ->
             {[at |-> q, rel |-> RelativeTo(q, root)] :
                 q \in {x \in DOMAIN f : IsWithin(root, x) /\ x # root}}
      [] pattern = "../*" ->
             {[at |-> q, rel |-> <<DotDot, Name(q)>>] :
                 q \in {x \in DOMAIN f :
                            x # Root /\ Parent(x) = Parent(root)}}
      [] OTHER -> {}

\* Path.is_file(): a symlink is followed
IsFileFollow(f, q) == IsFile(f, Realpath(f, Root, q))

\* the parts of a glob result that [:max_files] can keep: as many entries
\* as the slice keeps, in whatever order glob produced them
Taken(matches, max_files) ==
    LET n    == Cardinality(matches)
        keep == IF max_files >= 0
                THEN (IF max_files < n THEN max_files ELSE n)
                ELSE (IF n + max_files > 0 THEN n + max_files ELSE 0)
    IN  {t \in SUBSET matches : Cardinality(t) = keep}

\* the files file.is_file() looks at: is_file stats the entry, following a
\* symlink to where it leads
Stated(f, taken) == {Realpath(f, Root, x.at) : x \in taken}

\* ToolExecutor.list_files; taken is the part of the glob result that
\* [:max_files] keeps
list_files(f, pattern, taken) ==
    IF pattern = "/*" THEN Err(<<"Non-relative patterns are unsupported">>)
    ELSE [ok |-> TRUE,
          files |-> {[path |-> e.rel,
                      size |-> StSize(f, Realpath(f, Root, e.at))] :
                        e \in {x \in taken : IsFileFollow(f, x.at)}}]

(***************************************************************************)
(* Sessions of direct calls on one ToolExecutor                            *)
(***************************************************************************)
\* the filesystem the session starts on: the repository /r with a file (a
\* byte larger than read_file accepts), a
\* directory whose name ends in .bak and a symlink leaving it, a sibling
\* /r2 whose name extends the root's, and an unrelated directory /o
FS0 ==
    (Root :> DirNode)
    @@ (<<NmR>> :> DirNode)
    @@ (<<NmR, NmF>> :> FileNode("oversize"))
    @@ (<<NmR, NmR2 \o BakSuffix>> :> DirNode)
    @@ (<<NmR, NmL>> :> LinkNode(<<NmO>>))
    @@ (<<NmR2>> :> FileNode("secret"))
    @@ (<<NmO>> :> DirNode)
    @@ (<<NmO, NmF>> :> FileNode("secret"))

FSWithManifest == (<<NmR, NmPackageJson>> :> FileNode("c0")) @@ FS0
\* the repository holding the file r2 next to the directory r2.bak
FSWithBackupDir == (<<NmR, NmR2>> :> FileNode("c0")) @@ FS0

\* AIDevConfig; max_iterations (default 50) is configured no larger than
\* MaxCap
Config(auto) ==
    [tools |-> ToolConfig, auto_detect_tools |-> auto,
     max_iterations |-> MaxCap]

\* os.environ: the API keys are exported (or come from .env through
\* load_dotenv), or the environment holds neither and they come from the
\* configuration file
EnvWithKeys(k) ==
    [OPENAI_API_KEY    |-> IF k = 1 THEN "sk-openai-1" ELSE "sk-openai-2",
     ANTHROPIC_API_KEY |-> IF k = 1 THEN "sk-ant-1" ELSE "sk-ant-2"]
EnvNoKeys == [k \in {} |-> ""]
Environs == {EnvWithKeys(1), EnvWithKeys(2), EnvNoKeys}

\* the configuration file: AIDevConfig fields read from aidev.yaml
YamlConfig(auto) ==
    Config(auto)
    @@ [openai_api_key |-> "sk-openai-yaml",
        anthropic_api_key |-> "sk-ant-yaml",
        require_confirmation |-> TRUE]

\* Optional[...] = None
None == "<None>"

ModelConfig ==
    [openai_model |-> "gpt-4o",
     anthropic_model |-> "claude-3-5-sonnet-20241022",
     openai_temperature |-> "0.2",
     anthropic_max_tokens |-> 2000]

LoggingConfig == [level |-> "INFO", format |-> "json", file |-> None]

\* the defaults of the fields of AIDevConfig
AIDevConfigDefaults ==
    [tools |-> ToolConfig,
     models |-> ModelConfig,
     logging |-> LoggingConfig,
     openai_api_key |-> None,
     anthropic_api_key |-> None,
     target_repo |-> None,
     auto_detect_tools |-> TRUE,
     require_confirmation |-> TRUE,
     max_iterations |-> 50]

\* a pydantic model built from a dict: the fields given, the defaults for
\* the others
FillDefaults(defaults, given) ==
    [k \in DOMAIN defaults |->
        IF k \in DOMAIN given THEN given[k] ELSE defaults[k]]

\* AIDevConfig(**config_data); the nested models are built from their
\* dicts.  No field carries a constraint, so every value of the field's
\* type is accepted
AIDevConfig(data) ==
    [f \in DOMAIN AIDevConfigDefaults |->
        IF f \notin DOMAIN data THEN AIDevConfigDefaults[f]
        ELSE IF f = "tools" THEN FillDefaults(ToolConfig, data.tools)
        ELSE IF f = "models" THEN FillDefaults(ModelConfig, data.models)
        ELSE IF f = "logging" THEN FillDefaults(LoggingConfig, data.logging)
        ELSE data[f]]

\* config_data = {}: no configuration file, or an empty one
EmptyData == [k \in {} |-> ""]

\* os.getenv(name): an unset variable reads like an empty one in
\* `if value := os.getenv(name)`
Getenv(env, name) == IF name \in DOMAIN env THEN env[name] ELSE ""

\* config_data[key] = value
SetItem(data, key, value) ==
    [k \in DOMAIN data \cup {key} |-> IF k = key THEN value ELSE data[k]]

\* config_data.setdefault("models", {})[key] = value
SetModel(data, key, value) ==
    SetItem(data, "models",
            SetItem(IF "models" \in DOMAIN data THEN data.models
                    ELSE EmptyData,
                    key, value))

\* load_dotenv(): the variables of .env that os.environ does not hold yet
\* are added to it
load_dotenv(env, dotenv) ==
    [k \in DOMAIN env \cup DOMAIN dotenv |->
        IF k \in DOMAIN env THEN env[k] ELSE dotenv[k]]

\* load_config with the configuration file winning over the environment
load_config_file_wins(env, yaml) ==
    LET Over(d, name, Set(_, _)) ==
            IF Getenv(env, name) # "" THEN Set(d, Getenv(env, name)) ELSE d
        d1 == Over(yaml, "OPENAI_API_KEY",
                   LAMBDA d, v : SetItem(d, "openai_api_key", v))
        d2 == Over(d1, "ANTHROPIC_API_KEY",
                   LAMBDA d, v : SetItem(d, "anthropic_api_key", v))
        d3 == Over(d2, "OPENAI_MODEL",
                   LAMBDA d, v : SetModel(d, "openai_model", v))
        d4 == Over(d3, "ANTHROPIC_MODEL",
                   LAMBDA d, v : SetModel(d, "anthropic_model", v))
        d5 == Over(d4, "AIDEV_REPO",
                   LAMBDA d, v : SetItem(d, "target_repo", v))
        c  == AIDevConfig(d5)
    IN  IF "models" \in DOMAIN yaml
        THEN [c EXCEPT !.models = FillDefaults(c.models, yaml.models)]
        ELSE c

\* load_config (after load_dotenv): yaml is the config_data read from the
\* configuration file, {} when there is none; the five environment
\* variables override it, AIDevConfig is built from the outcome
load_config(env, yaml) ==
    LET Over(d, name, Set(_, _)) ==
            IF Getenv(env, name) # "" THEN Set(d, Getenv(env, name)) ELSE d
        d1 == Over(yaml, "OPENAI_API_KEY",
                   LAMBDA d, v : SetItem(d, "openai_api_key", v))
        d2 == Over(d1, "ANTHROPIC_API_KEY",
                   LAMBDA d, v : SetItem(d, "anthropic_api_key", v))
        d3 == Over(d2, "OPENAI_MODEL",
                   LAMBDA d, v : SetModel(d, "openai_model", v))
        d4 == Over(d3, "ANTHROPIC_MODEL",
                   LAMBDA d, v : SetModel(d, "anthropic_model", v))
        d5 == Over(d4, "AIDEV_REPO",
                   LAMBDA d, v : SetItem(d, "target_repo", v))
    IN  AIDevConfig(d5)

\* no provider call is in progress
DriverIdle ==
    /\ func = "none"
    /\ pc = "idle"
    /\ attempt = 0
    /\ sleeps = <<>>
    /\ ret = [kind |-> "none"]
    /\ capArg = <<>>
    /\ max_iterations = 0
    /\ iteration = 0
    /\ messages = <<>>
    /\ request = <<>>
    /\ response = <<>>
    /\ blockIdx = 1
    /\ tool_results = <<>>
    /\ text_content = <<>>
    /\ modelCalls = 0
    /\ callLog = <<>>
    /\ cli = [command |-> "none"]

\* no write_file call of a concurrent invocation is in progress
NoWriters == [calls |-> <<>>, log |-> <<>>]

\* ToolExecutor.__init__
Construct(c, f) ==
    /\ fs = f
    /\ cfg = c
    /\ repo_root = RepoRoot
    /\ writers = NoWriters
    /\ allowed_commands = build_allowed_commands(c, f, RepoRoot)
    /\ opsDone = 0
    /\ toolCall = [op |-> "none"]
    /\ toolResult = [ok |-> TRUE]
    /\ spawned = 0

PathComponents == {DotDot, NmF, NmL, NmR2}
\* relative paths that climb with leading '..' components and then
\* descend, the absolute paths that name a child or a grandchild of "/"
\* (an absolute argument replaces the repository root in base / path),
\* and the manifest package.json at the top level of the repository
PathInputs ==
    {[abs |-> FALSE, parts |-> s] :
        s \in {q \in SeqsUpTo(PathComponents, MaxPathLen) :
                  \A i \in DOMAIN q :
                      (q[i] = DotDot /\ i > 1) => q[i - 1] = DotDot}}
    \cup {[abs |-> TRUE, parts |-> <<c>>] : c \in PathComponents}
    \cup {[abs |-> TRUE, parts |-> <<c, d>>] :
              c \in PathComponents \ {DotDot}, d \in PathComponents \ {DotDot}}
    \cup {[abs |-> FALSE, parts |-> <<NmPackageJson>>]}
\* the content written: of exactly the size read_file accepts
Contents == {"capsize"}

ReadFile ==
    /\ opsDone < MaxOps
    /\ \E path \in PathInputs :
         LET r == read_file(repo_root, fs, path)
         IN  /\ toolCall' = [op |-> "read_file",
                             target |-> r.target, passed |-> r.passed,
                             read |-> r.read]
             /\ toolResult' = r.result
             /\ fs' = r.fs
    /\ opsDone' = opsDone + 1
    /\ UNCHANGED <<cfg, repo_root, writers, allowed_commands, spawned, environ>>
    /\ UNCHANGED <<driverVars, cli>>

\* write_file after which the allowed commands are built anew
WriteFile_rebuilds ==
    /\ opsDone < MaxOps
    /\ \E path \in PathInputs, content \in Contents :
         LET r == write_file(repo_root, fs, path, content)
         IN  /\ toolCall' = [op |-> "write_file",
                             content |-> content,
                             target |-> r.target, passed |-> r.passed,
                             read |-> r.read]
             /\ toolResult' = r.result
             /\ fs' = r.fs
             /\ allowed_commands' =
                    build_allowed_commands(cfg, r.fs, repo_root)
    /\ opsDone' = opsDone + 1
    /\ UNCHANGED <<cfg, repo_root, writers, spawned, environ>>
    /\ UNCHANGED <<driverVars, cli>>

\* one call of ToolExecutor.write_file
WriteFile ==
    /\ opsDone < MaxOps
    /\ \E path \in PathInputs, content \in Contents :
         LET r == write_file(repo_root, fs, path, content)
         IN  /\ toolCall' = [op |-> "write_file",
                             content |-> content,
                             target |-> r.target, passed |-> r.passed,
                             read |-> r.read]
             /\ toolResult' = r.result
             /\ fs' = r.fs
    /\ opsDone' = opsDone + 1
    /\ UNCHANGED <<cfg, repo_root, writers, allowed_commands, spawned, environ>>
    /\ UNCHANGED <<driverVars, cli>>

InitFiles ==
    /\ environ = EnvWithKeys(1)
    /\ \E f \in {FS0, FSWithBackupDir} :
          Construct(load_config(environ, YamlConfig(TRUE)), f)
    /\ DriverIdle
NextFiles == ReadFile \/ WriteFile
SpecFiles == InitFiles /\ [][NextFiles]_vars

CmdPytestQ  == <<"p", "y", "t", "e", "s", "t", " ", "-", "q">>
CmdRmRf     == <<"r", "m", " ", "-", "r", "f", " ", "/">>
CmdPytes    == <<"p", "y", "t", "e", "s">>
CmdNpmRun   == <<"n", "p", "m", " ", "r", "u", "n", " ", "b", "u", "i", "l", "d">>
CommandCores == {CmdPytestQ, CmdRmRf, CmdPytes, CmdNpmRun}
Pads == SeqsUpTo(Whitespace, MaxPad)
CommandInputs == {l \o c \o r : l \in Pads, c \in CommandCores, r \in Pads}
TimeoutInputs ==
    {<<>>, <<0>>, <<-1>>, <<5>>, <<DefaultMaxTimeout + 1>>}
\* the outcomes the tool-call loop is run against: the command ran to its
\* end, with either exit status
Outcomes ==
    {o \in SubprocessOutcomes(EnvNoKeys) :
        /\ o.kind \in {"exit0", "exit1"}
        /\ o.stdout.lead = 0 /\ o.stderr.lead = 0}

\* one call of ToolExecutor.bash on a fresh ToolExecutor: bash reads only
\* the session constants, so one call from every construction covers it
Bash ==
    /\ opsDone = 0
    /\ \E command \in CommandInputs, timeout \in TimeoutInputs,
          outcome \in SubprocessOutcomes(SubprocessEnv(environ, repo_root)) :
         LET r == bash(cfg, allowed_commands, command, timeout, outcome)
         IN  /\ r.run => OutcomeFits(outcome, r.timeout[1])
             /\ toolCall' = [op |-> "bash", command |-> command,
                             timeout |-> timeout, run |-> r.run,
                             effective |-> r.timeout,
                             outcome |-> IF r.run THEN outcome.kind
                                         ELSE "none",
                             captured |->
                                 IF r.run
                                 THEN [stdout |-> outcome.stdout,
                                       stderr |-> outcome.stderr]
                                 ELSE [stdout |-> EmptyStream,
                                       stderr |-> EmptyStream],
                             running |-> r.running]
             /\ toolResult' = r.result
             /\ spawned' = IF r.run THEN spawned + 1 ELSE spawned
    /\ opsDone' = opsDone + 1
    /\ UNCHANGED <<fs, cfg, repo_root, writers, allowed_commands, environ>>
    /\ UNCHANGED <<driverVars, cli>>

InitBash ==
    /\ environ \in Environs
    /\ \E auto \in BOOLEAN, f \in {FS0, FSWithManifest} :
          Construct(load_config(environ, YamlConfig(auto)), f)
    /\ DriverIdle
NextBash == Bash
SpecBash == InitBash /\ [][NextBash]_vars

\* the lines git prints in the body of a diff: an added or a removed line
\* (the marker and the line's content) or a context line
AddedLines   == { <<"+", "x">>, <<"+", "+", "+", "i", ";">> }
RemovedLines == { <<"-", "y">>, <<"-", "-", "-", " ", "c">> }
ContextLines == { <<" ", "z">> }
DiffHeader ==
    << <<"-", "-", "-", " ", "a", "/", "f">>,
       <<"+", "+", "+", " ", "b", "/", "f">>,
       <<"@", "@">> >>
DiffBodies ==
    SeqsUpTo(AddedLines \cup RemovedLines \cup ContextLines, MaxDiffLines)

\* the text of a diff: every line followed by a newline
RECURSIVE JoinDiff(_)
JoinDiff(lines) ==
    IF lines = <<>> THEN <<>>
    ELSE Head(lines) \o <<"\n">> \o JoinDiff(Tail(lines))

\* git diff prints nothing when nothing changed
DiffTexts ==
    {<<>>} \cup {JoinDiff(DiffHeader \o b) : b \in DiffBodies \ {<<>>}}

\* the body lines of a diff text
BodyOf(text) ==
    IF text = <<>> THEN <<>>
    ELSE CHOOSE b \in DiffBodies : JoinDiff(DiffHeader \o b) = text

\* one call of ToolExecutor.git_diff
GitDiff ==
    /\ opsDone = 0
    /\ \E staged \in BOOLEAN, outcome \in GitOutcomes(DiffTexts) :
         /\ toolCall' = [op |-> "git_diff", staged |-> staged,
                         outcome |-> outcome.kind,
                         body |-> BodyOf(outcome.stdout)]
         /\ toolResult' = git_diff(staged, outcome)
    /\ spawned' = spawned + 1
    /\ opsDone' = opsDone + 1
    /\ UNCHANGED <<fs, cfg, repo_root, writers, allowed_commands, environ>>
    /\ UNCHANGED <<driverVars, cli>>

\* one call of ToolExecutor.git_apply
GitApply ==
    /\ opsDone = 0
    /\ \E patch \in DiffTexts, staged \in BOOLEAN,
          outcome \in GitOutcomes({<<>>}) :
         /\ toolCall' = [op |-> "git_apply", staged |-> staged,
                         outcome |-> outcome.kind, body |-> BodyOf(patch)]
         /\ toolResult' = git_apply(patch, staged, outcome)
    /\ spawned' = spawned + 1
    /\ opsDone' = opsDone + 1
    /\ UNCHANGED <<fs, cfg, repo_root, writers, allowed_commands, environ>>
    /\ UNCHANGED <<driverVars, cli>>

GlobPatterns == {"*", "**/*", "../*", "/*"}
MaxFilesInputs == {100, 1, 0, -1}

\* one call of ToolExecutor.list_files
ListFiles ==
    /\ opsDone = 0
    /\ \E pattern \in GlobPatterns, max_files \in MaxFilesInputs :
         \E taken \in Taken(Glob(fs, repo_root, pattern), max_files) :
            /\ toolCall' = [op |-> "list_files", pattern |-> pattern,
                            max_files |-> max_files,
                            stated |-> Stated(fs, taken)]
            /\ toolResult' = list_files(fs, pattern, taken)
    /\ opsDone' = opsDone + 1
    /\ UNCHANGED <<fs, cfg, repo_root, writers, allowed_commands, spawned, environ>>
    /\ UNCHANGED <<driverVars, cli>>

InitGit ==
    /\ environ = EnvWithKeys(1)
    /\ Construct(load_config(environ, YamlConfig(TRUE)), FS0)
    /\ DriverIdle
NextGit == GitDiff \/ GitApply \/ ListFiles
SpecGit == InitGit /\ [][NextGit]_vars


(***************************************************************************)
(* Loading and constructing the configuration                              *)
(***************************************************************************)
ConfigVariables ==
    {"OPENAI_API_KEY", "ANTHROPIC_API_KEY", "OPENAI_MODEL",
     "ANTHROPIC_MODEL", "AIDEV_REPO"}

\* os.environ: each of the five variables is unset, set to the empty
\* string or set to a value of its own
ConfigEnvirons ==
    UNION {[names -> {"", "x"}] : names \in SUBSET ConfigVariables}

EnvValue(env, name) == IF env[name] = "" THEN "" ELSE "env:" \o name

\* the process environment the variables of ConfigEnvirons stand for
EnvOf(e) == [name \in DOMAIN e |-> EnvValue(e, name)]

\* the .env file: none, or one giving a key and a model
DotEnvs ==
    {EmptyData,
     [OPENAI_API_KEY |-> "dotenv:key", ANTHROPIC_MODEL |-> "dotenv:model"]}

\* config_data read from the configuration file: no file, the file of the
\* tests, a file giving every overridable field, and files with a timeout
\* of -1 or 0
ConfigFiles ==
    {EmptyData,
     [models |-> [openai_model |-> "gpt-3.5-turbo",
                  anthropic_model |-> "claude-3-haiku-20240307"],
      tools |-> [default_timeout |-> 60]],
     [openai_api_key |-> "sk-openai-yaml",
      anthropic_api_key |-> "sk-ant-yaml",
      models |-> [openai_model |-> "gpt-3.5-turbo"],
      target_repo |-> "/file/repo",
      max_iterations |-> MaxCap],
     [tools |-> [default_timeout |-> -1]],
     [tools |-> [default_timeout |-> 0, max_timeout |-> 10]]}

\* load_config() is called
LoadConfig ==
    /\ opsDone = 0
    /\ \E dotenv \in DotEnvs, yaml \in ConfigFiles :
         /\ environ' = load_dotenv(environ, dotenv)
         /\ cfg' = load_config(environ', yaml)
         /\ toolCall' = [op |-> "load_config", dotenv |-> dotenv,
                         file |-> yaml]
    /\ toolResult' = [ok |-> TRUE]
    /\ opsDone' = opsDone + 1
    /\ UNCHANGED <<fs, repo_root, writers, allowed_commands, spawned>>
    /\ UNCHANGED <<driverVars, cli>>

\* AIDevConfig(**data) is called
ConstructConfig ==
    /\ opsDone = 0
    /\ \E data \in ConfigFiles :
         /\ cfg' = AIDevConfig(data)
         /\ toolCall' = [op |-> "AIDevConfig", file |-> data]
    /\ toolResult' = [ok |-> TRUE]
    /\ opsDone' = opsDone + 1
    /\ UNCHANGED <<fs, repo_root, writers, allowed_commands, spawned, environ>>
    /\ UNCHANGED <<driverVars, cli>>

\* the process has started and no configuration is loaded yet
InitConfig ==
    /\ \E e \in ConfigEnvirons : environ = EnvOf(e)
    /\ fs = FS0
    /\ cfg = [loaded |-> FALSE]
    /\ repo_root = Root
    /\ writers = NoWriters
    /\ allowed_commands = EmptyBag
    /\ opsDone = 0
    /\ toolCall = [op |-> "none"]
    /\ toolResult = [ok |-> TRUE]
    /\ spawned = 0
    /\ DriverIdle
NextConfig == LoadConfig \/ ConstructConfig
SpecConfig == InitConfig /\ [][NextConfig]_vars

(***************************************************************************)
(* Constructing a ToolExecutor                                             *)
(***************************************************************************)
ManifestNames == {package_files[i].file : i \in DOMAIN package_files}
NmCargoToml   == package_files[4].file

\* the repository with the manifests `top` at its top level and the
\* manifests `nested` in its subdirectory r2.bak
FSWithManifests(top, nested) ==
    [p \in DOMAIN FS0
           \cup {<<NmR, m>> : m \in top}
           \cup {<<NmR, NmR2 \o BakSuffix, m>> : m \in nested} |->
        IF p \in DOMAIN FS0 THEN FS0[p] ELSE FileNode("c0")]

\* the configured baseline: the default list, or a list of the
\* configuration file in which a prefix occurs twice and another is one
\* that go.mod maps to as well
BaselineFiles ==
    {EmptyData,
     [tools |-> [allowed_commands |->
                    << <<"p", "y", "t", "e", "s", "t">>,
                       <<"g", "o", " ", "r", "u", "n">>,
                       <<"p", "y", "t", "e", "s", "t">> >>]]}

\* ToolExecutor(config)
ConstructExecutor ==
    /\ toolCall.op = "none"
    /\ repo_root' = RepoRoot
    /\ UNCHANGED writers
    /\ allowed_commands' = build_allowed_commands(cfg, fs, RepoRoot)
    /\ toolCall' = [op |-> "ToolExecutor"]
    /\ UNCHANGED <<fs, cfg, opsDone, toolResult, spawned, environ>>
    /\ UNCHANGED <<driverVars, cli>>

\* the configuration is loaded, no ToolExecutor exists yet
InitConstruct ==
    /\ environ = EnvWithKeys(1)
    /\ \E top \in SUBSET ManifestNames, nested \in SUBSET {NmCargoToml} :
         fs = FSWithManifests(top, nested)
    /\ \E auto \in BOOLEAN, yaml \in BaselineFiles :
         cfg = load_config(environ,
                           SetItem(yaml, "auto_detect_tools", auto))
    /\ repo_root = Root
    /\ writers = NoWriters
    /\ allowed_commands = EmptyBag
    /\ opsDone = 0
    /\ toolCall = [op |-> "none"]
    /\ toolResult = [ok |-> TRUE]
    /\ spawned = 0
    /\ DriverIdle
NextConstruct == ConstructExecutor
SpecConstruct == InitConstruct /\ [][NextConstruct]_vars

(***************************************************************************)
(* Providers (src/src/aidev/providers.py)                                  *)
(***************************************************************************)
MaxRetries    == 3
BackoffFactor == 2

RECURSIVE Pow(_, _)
Pow(b, e) == IF e = 0 THEN 1 ELSE b * Pow(b, e - 1)

\* the errors with_retry catches for a retry; "transient" stands for an
\* anthropic RateLimitError or InternalServerError raised inside
\* implement_spec
TransientErrors ==
    {"openai.RateLimitError", "openai.APITimeoutError",
     "openai.InternalServerError", "transient"}
\* the except clause of the wrapper also catching ValueError
IsTransient_with_value_error(e) ==
    e \in TransientErrors \cup {"Empty response", "Invalid JSON response"}

\* the first except clause of the wrapper catches e
IsTransient(e) == e \in TransientErrors

\* sleep_time as backoff_factor ** (attempt + 1)
SleepTime_next_power(n) == Pow(BackoffFactor, n + 1)

\* sleep_time = backoff_factor ** attempt
SleepTime(n) == Pow(BackoffFactor, n)

\* "\n".join(text_content)
RECURSIVE JoinLines(_)
JoinLines(texts) ==
    IF texts = <<>> THEN ""
    ELSE IF Len(texts) = 1 THEN texts[1]
    ELSE texts[1] \o "\n" \o JoinLines(Tail(texts))

\* json.dumps(result): the result as JSON text
JsonDumps(result) == <<"json", result>>

TextBlock(t) == [type |-> "text", text |-> t]
ToolUse(id, name, input) ==
    [type |-> "tool_use", id |-> id, name |-> name, input |-> input]

\* the tool_result entry of a tool_use block with another field of the
\* block as its tool_use_id
ToolResultBlock_by_name(block, result) ==
    [type |-> "tool_result", tool_use_id |-> block.name,
     content |-> JsonDumps(result)]

\* the tool_result entry appended for a tool_use block
ToolResultBlock(block, result) ==
    [type |-> "tool_result", tool_use_id |-> block.id,
     content |-> JsonDumps(result)]

\* for iteration in range(max_iterations), with the bound included
InRange_inclusive(i, n) == 0 <= i /\ i <= n

\* for iteration in range(max_iterations)
InRange(i, n) == 0 <= i /\ i < n

\* `if tool_results:` taken only for two or more results
HasToolResults_many(results) == Len(results) > 1

\* `if tool_results:`
HasToolResults(results) == results # <<>>

\* the three results of implement_spec
DoneResult(it, texts) ==
    [ok |-> TRUE, iterations |-> it + 1, response |-> JoinLines(texts)]
ErrorResult(e, it) ==
    [ok |-> FALSE, error |-> <<e>>, iterations |-> it + 1]
MaxIterationsResult(n) ==
    [ok |-> FALSE, error |-> <<"Maximum iterations", n>>, iterations |-> n]

\* the cap taken from the argument whenever one is given, 0 included
EffectiveCap_zero_given(arg, c) ==
    IF arg = <<>> THEN c.max_iterations ELSE arg[1]

\* max_iterations or self.config.max_iterations
EffectiveCap(arg, c) ==
    IF arg = <<>> \/ arg = <<0>> THEN c.max_iterations ELSE arg[1]

SeedMessage == [role |-> "user", content |-> "initial_prompt"]

\* what the environment contributes to the execution of a tool: how the
\* subprocess of bash or git ends, which entries the slice of list_files
\* keeps
ToolOutcomes(name, input) ==
    CASE name = "bash" -> Outcomes
      [] name \in {"git_diff", "git_apply"} ->
             {o \in GitOutcomes({<<>>}) : o.kind \in {"exit0", "exit1"}}
      [] name = "list_files" ->
             Taken(Glob(fs, repo_root,
                        IF "pattern" \in DOMAIN input
                        THEN input.pattern ELSE "*"),
                   IF "max_files" \in DOMAIN input
                   THEN input.max_files ELSE 100)
      [] OTHER -> {"none"}

\* AnthropicProvider._execute_tool: the dispatch by name, a missing
\* argument as KeyError, any other name as unknown tool
ExecuteTool(name, input, outcome) ==
    LET Plain(res) ==
            [result |-> res, fs |-> fs, run |-> FALSE,
             call |-> [op |-> name]]
    IN  CASE name = "read_file" ->
                IF "path" \notin DOMAIN input
                THEN Plain(Err(<<"KeyError", "path">>))
                ELSE LET r == read_file(repo_root, fs, input.path)
                     IN  [result |-> r.result, fs |-> r.fs, run |-> FALSE,
                          call |-> [op |-> name,
                                    target |-> r.target,
                                    passed |-> r.passed, read |-> r.read]]
          [] name = "write_file" ->
                IF "path" \notin DOMAIN input
                THEN Plain(Err(<<"KeyError", "path">>))
                ELSE IF "content" \notin DOMAIN input
                THEN Plain(Err(<<"KeyError", "content">>))
                ELSE LET r == write_file(repo_root, fs, input.path,
                                         input.content)
                     IN  [result |-> r.result, fs |-> r.fs, run |-> FALSE,
                          call |-> [op |-> name,
                                    content |-> input.content,
                                    target |-> r.target,
                                    passed |-> r.passed, read |-> r.read]]
          [] name = "bash" ->
                IF "command" \notin DOMAIN input
                THEN Plain(Err(<<"KeyError", "command">>))
                ELSE LET to == IF "timeout" \in DOMAIN input
                               THEN <<input.timeout>> ELSE <<>>
                         r  == bash(cfg, allowed_commands, input.command,
                                    to, outcome)
                     IN  [result |-> r.result, fs |-> fs, run |-> r.run,
                          call |-> [op |-> name, command |-> input.command,
                                    timeout |-> to, run |-> r.run,
                                    effective |-> r.timeout,
                                    outcome |-> IF r.run THEN outcome.kind
                                                ELSE "none",
                                    running |-> r.running]]
          [] name = "git_diff" ->
                LET staged == IF "staged" \in DOMAIN input
                              THEN input.staged ELSE FALSE
                IN  [result |-> git_diff(staged, outcome), fs |-> fs,
                     run |-> TRUE,
                     call |-> [op |-> name, staged |-> staged,
                               outcome |-> outcome.kind,
                               body |-> BodyOf(outcome.stdout)]]
          [] name = "git_apply" ->
                IF "patch" \notin DOMAIN input
                THEN Plain(Err(<<"KeyError", "patch">>))
                ELSE LET staged == IF "staged" \in DOMAIN input
                                   THEN input.staged ELSE TRUE
                     IN  [result |-> git_apply(input.patch, staged, outcome),
                          fs |-> fs, run |-> TRUE,
                          call |-> [op |-> name, staged |-> staged,
                                    outcome |-> outcome.kind,
                                    body |-> BodyOf(input.patch)]]
          [] name = "list_files" ->
                LET pattern == IF "pattern" \in DOMAIN input
                               THEN input.pattern ELSE "*"
                    max_files == IF "max_files" \in DOMAIN input
                                 THEN input.max_files ELSE 100
                IN  [result |-> list_files(fs, pattern, outcome), fs |-> fs,
                     run |-> FALSE,
                     call |-> [op |-> name, pattern |-> pattern,
                               max_files |-> max_files,
                               stated |-> Stated(fs, outcome)]]
          [] OTHER -> Plain(Err(<<"Unknown tool", name>>))

\* the wrapper of with_retry retrying once more than max_retries allows
WrapperHandles_one_more(e) ==
    IF IsTransient(e) /\ attempt <= MaxRetries
    THEN /\ sleeps' = Append(sleeps, SleepTime(attempt))
         /\ attempt' = attempt + 1
         /\ pc' = "wrapper"
         /\ ret' = ret
    ELSE /\ pc' = "done"
         /\ ret' = [kind |-> "raise", exc |-> e]
         /\ UNCHANGED <<sleeps, attempt>>

\* what the wrapper of with_retry does with an exception e of the wrapped
\* function: sleep and call again, or raise
WrapperHandles(e) ==
    IF IsTransient(e) /\ attempt < MaxRetries
    THEN /\ sleeps' = Append(sleeps, SleepTime(attempt))
         /\ attempt' = attempt + 1
         /\ pc' = "wrapper"
         /\ ret' = ret
    ELSE /\ pc' = "done"
         /\ ret' = [kind |-> "raise", exc |-> e]
         /\ UNCHANGED <<sleeps, attempt>>

\* the wrapper of with_retry returns the value of the wrapped function
WrapperReturns(v) ==
    /\ pc' = "done"
    /\ ret' = [kind |-> "value", value |-> v]
    /\ UNCHANGED <<sleeps, attempt>>

\* with_retry calls the wrapped function (once more); implement_spec
\* starts with a fresh conversation
WrapperCall ==
    /\ pc = "wrapper"
    /\ IF func = "implement_spec"
       THEN /\ max_iterations' = EffectiveCap(capArg, cfg)
            /\ messages' = <<SeedMessage>>
            /\ iteration' = 0
            /\ pc' = "loop"
       ELSE /\ pc' = "openai"
            /\ UNCHANGED <<max_iterations, messages, iteration>>
    /\ UNCHANGED <<func, attempt, sleeps, ret, capArg, request, response,
                   blockIdx, tool_results, text_content, modelCalls, callLog>>
    /\ UNCHANGED <<toolVars, cli>>

\* OpenAIProvider.generate_spec: the completion arrives and parses
OpenAIReturns ==
    /\ pc = "openai"
    /\ WrapperReturns(IF func = "review_code" THEN "review" ELSE "spec")
    /\ callLog' = Append(callLog, "json")
    /\ UNCHANGED <<func, capArg, max_iterations, iteration, messages,
                   request, response, blockIdx, tool_results, text_content,
                   modelCalls>>
    /\ UNCHANGED <<toolVars, cli>>

\* OpenAIProvider.generate_spec / review_code raises: a provider error
\* (rate limit, timeout, server error, or another one), or ValueError for
\* an empty or non-JSON completion
OpenAIRaises ==
    /\ pc = "openai"
    /\ \E e \in {"openai.RateLimitError", "openai.APITimeoutError",
                 "openai.InternalServerError", "fatal", "Empty response",
                 "Invalid JSON response"} :
         /\ WrapperHandles(e)
         /\ callLog' = Append(callLog, e)
    /\ UNCHANGED <<func, capArg, max_iterations, iteration, messages,
                   request, response, blockIdx, tool_results, text_content,
                   modelCalls>>
    /\ UNCHANGED <<toolVars, cli>>

\* implement_spec issuing two model calls at a time
LoopStep_two_calls ==
    /\ pc = "loop"
    /\ IF InRange(iteration, max_iterations)
       THEN /\ pc' = "await"
            /\ request' = messages
            /\ modelCalls' = modelCalls + 2
            /\ UNCHANGED <<ret, sleeps, attempt>>
       ELSE /\ WrapperReturns(MaxIterationsResult(max_iterations))
            /\ UNCHANGED <<request, modelCalls>>
    /\ UNCHANGED <<func, capArg, max_iterations, iteration, messages,
                   response, blockIdx, tool_results, text_content, callLog>>
    /\ UNCHANGED <<toolVars, cli>>

\* implement_spec: the loop is over, or the next model call is issued
LoopStep ==
    /\ pc = "loop"
    /\ IF InRange(iteration, max_iterations)
       THEN /\ pc' = "await"
            /\ request' = messages
            /\ modelCalls' = modelCalls + 1
            /\ UNCHANGED <<ret, sleeps, attempt>>
       ELSE /\ WrapperReturns(MaxIterationsResult(max_iterations))
            /\ UNCHANGED <<request, modelCalls>>
    /\ UNCHANGED <<func, capArg, max_iterations, iteration, messages,
                   response, blockIdx, tool_results, text_content, callLog>>
    /\ UNCHANGED <<toolVars, cli>>

HasToolUse(content) == \E i \in DOMAIN content : content[i].type = "tool_use"

\* the blocks a model response is made of
BlockText  == TextBlock("t1")
BlockWrite ==
    ToolUse("tu1", "write_file",
            [path |-> [abs |-> FALSE, parts |-> <<NmF>>], content |-> "c1"])
BlockBash  == ToolUse("tu2", "bash", [command |-> CmdPytestQ])
Blocks     == {BlockText, BlockWrite, BlockBash}
\* the API gives every tool_use block of a response its own id
Responses  ==
    {s \in SeqsUpTo(Blocks, MaxBlocks) :
        \A i, j \in DOMAIN s :
            (s[i].type = "tool_use" /\ s[j].type = "tool_use" /\ i # j)
                => s[i].id # s[j].id}

\* a response arrives and the texts of earlier responses are kept
ModelResponds_keep_texts ==
    /\ pc = "await"
    /\ \E content \in Responses :
         /\ response' = content
         /\ callLog' = Append(callLog,
                IF HasToolUse(content) THEN "tool_use" ELSE "text")
    /\ tool_results' = <<>>
    /\ text_content' = text_content
    /\ blockIdx' = 1
    /\ pc' = "blocks"
    /\ UNCHANGED <<func, attempt, sleeps, ret, capArg, max_iterations,
                   iteration, messages, request, modelCalls>>
    /\ UNCHANGED <<toolVars, cli>>

\* client.messages.create returns a response
ModelResponds ==
    /\ pc = "await"
    /\ \E content \in Responses :
         /\ response' = content
         /\ callLog' = Append(callLog,
                IF HasToolUse(content) THEN "tool_use" ELSE "text")
    /\ tool_results' = <<>>
    /\ text_content' = <<>>
    /\ blockIdx' = 1
    /\ pc' = "blocks"
    /\ UNCHANGED <<func, attempt, sleeps, ret, capArg, max_iterations,
                   iteration, messages, request, modelCalls>>
    /\ UNCHANGED <<toolVars, cli>>

\* client.messages.create raises and the handler returns the error on
\* whichever iteration it was raised
ModelRaises_returns_always ==
    /\ pc = "await"
    /\ \E e \in {"transient", "fatal"} :
         /\ callLog' = Append(callLog, e)
         /\ WrapperReturns(ErrorResult(e, iteration))
         /\ UNCHANGED iteration
    /\ UNCHANGED <<func, capArg, max_iterations, messages, request,
                   response, blockIdx, tool_results, text_content,
                   modelCalls>>
    /\ UNCHANGED <<toolVars, cli>>

\* client.messages.create raises: the handler of the loop body returns the
\* error on the last iteration and goes on to the next iteration otherwise
ModelRaises ==
    /\ pc = "await"
    /\ \E e \in {"transient", "fatal"} :
         /\ callLog' = Append(callLog, e)
         /\ IF iteration = max_iterations - 1
            THEN /\ WrapperReturns(ErrorResult(e, iteration))
                 /\ UNCHANGED iteration
            ELSE /\ iteration' = iteration + 1
                 /\ pc' = "loop"
                 /\ UNCHANGED <<ret, sleeps, attempt>>
    /\ UNCHANGED <<func, capArg, max_iterations, messages, request,
                   response, blockIdx, tool_results, text_content,
                   modelCalls>>
    /\ UNCHANGED <<toolVars, cli>>

\* the next content block of the response, a tool_use whose result is
\* ok=false being executed again instead of collected
ProcessBlock_retries_failed ==
    /\ pc = "blocks"
    /\ blockIdx <= Len(response)
    /\ LET block == response[blockIdx]
       IN  IF block.type = "tool_use"
           THEN \E outcome \in ToolOutcomes(block.name, block.input) :
                  LET x == ExecuteTool(block.name, block.input, outcome)
                  IN  /\ tool_results' =
                             IF x.result.ok
                             THEN Append(tool_results,
                                         ToolResultBlock(block, x.result))
                             ELSE tool_results
                      /\ blockIdx' =
                             IF x.result.ok THEN blockIdx + 1 ELSE blockIdx
                      /\ fs' = x.fs
                      /\ toolCall' = x.call
                      /\ toolResult' = x.result
                      /\ spawned' = IF x.run THEN spawned + 1 ELSE spawned
                      /\ UNCHANGED text_content
           ELSE /\ text_content' =
                       IF block.type = "text"
                       THEN Append(text_content, block.text)
                       ELSE text_content
                /\ blockIdx' = blockIdx + 1
                /\ UNCHANGED <<tool_results, fs, toolCall, toolResult,
                               spawned>>
    /\ UNCHANGED <<cfg, repo_root, writers, allowed_commands, opsDone, environ, cli>>
    /\ UNCHANGED <<func, pc, attempt, sleeps, ret, capArg, max_iterations,
                   iteration, messages, request, response, modelCalls,
                   callLog>>

\* the next content block of the response: a text is collected, a tool_use
\* is executed and its result collected
ProcessBlock ==
    /\ pc = "blocks"
    /\ blockIdx <= Len(response)
    /\ LET block == response[blockIdx]
       IN  IF block.type = "tool_use"
           THEN \E outcome \in ToolOutcomes(block.name, block.input) :
                  LET x == ExecuteTool(block.name, block.input, outcome)
                  IN  /\ tool_results' =
                             Append(tool_results,
                                    ToolResultBlock(block, x.result))
                      /\ fs' = x.fs
                      /\ toolCall' = x.call
                      /\ toolResult' = x.result
                      /\ spawned' = IF x.run THEN spawned + 1 ELSE spawned
                      /\ UNCHANGED text_content
           ELSE /\ text_content' =
                       IF block.type = "text"
                       THEN Append(text_content, block.text)
                       ELSE text_content
                /\ UNCHANGED <<tool_results, fs, toolCall, toolResult,
                               spawned>>
    /\ blockIdx' = blockIdx + 1
    /\ UNCHANGED <<cfg, repo_root, writers, allowed_commands, opsDone, environ, cli>>
    /\ UNCHANGED <<func, pc, attempt, sleeps, ret, capArg, max_iterations,
                   iteration, messages, request, response, modelCalls,
                   callLog>>

\* all blocks are processed and the tool results are appended before the
\* assistant turn they answer
FinishResponse_results_first ==
    /\ pc = "blocks"
    /\ blockIdx > Len(response)
    /\ LET assistant == [role |-> "assistant", content |-> response]
       IN  IF HasToolResults(tool_results)
           THEN /\ messages' =
                       messages \o <<[role |-> "user",
                                      content |-> tool_results], assistant>>
                /\ iteration' = iteration + 1
                /\ pc' = "loop"
                /\ UNCHANGED <<ret, sleeps, attempt>>
           ELSE /\ messages' = Append(messages, assistant)
                /\ WrapperReturns(DoneResult(iteration, text_content))
                /\ UNCHANGED iteration
    /\ UNCHANGED <<func, capArg, max_iterations, request, response,
                   blockIdx, tool_results, text_content, modelCalls, callLog>>
    /\ UNCHANGED <<toolVars, cli>>

\* all blocks are processed: the assistant turn is appended, then either
\* the tool results are appended and the loop continues, or the texts are
\* returned
FinishResponse ==
    /\ pc = "blocks"
    /\ blockIdx > Len(response)
    /\ LET withAssistant ==
               Append(messages, [role |-> "assistant", content |-> response])
       IN  IF HasToolResults(tool_results)
           THEN /\ messages' =
                       Append(withAssistant,
                              [role |-> "user", content |-> tool_results])
                /\ iteration' = iteration + 1
                /\ pc' = "loop"
                /\ UNCHANGED <<ret, sleeps, attempt>>
           ELSE /\ messages' = withAssistant
                /\ WrapperReturns(DoneResult(iteration, text_content))
                /\ UNCHANGED iteration
    /\ UNCHANGED <<func, capArg, max_iterations, request, response,
                   blockIdx, tool_results, text_content, modelCalls, callLog>>
    /\ UNCHANGED <<toolVars, cli>>

CapArgs == {<<>>, <<0>>, <<-1>>} \cup {<<n>> : n \in 1..MaxCap}

Init ==
    /\ environ = EnvWithKeys(1)
    /\ Construct(load_config(environ, YamlConfig(TRUE)), FS0)
    /\ \E f \in {"generate_spec", "implement_spec"} :
         /\ func = f
         /\ capArg \in (IF f = "implement_spec" THEN CapArgs ELSE {<<>>})
    /\ pc = "wrapper"
    /\ attempt = 0
    /\ sleeps = <<>>
    /\ ret = [kind |-> "none"]
    /\ max_iterations = 0
    /\ iteration = 0
    /\ messages = <<>>
    /\ request = <<>>
    /\ response = <<>>
    /\ blockIdx = 1
    /\ tool_results = <<>>
    /\ text_content = <<>>
    /\ modelCalls = 0
    /\ callLog = <<>>
    /\ cli = [command |-> "none"]

Next ==
    \/ WrapperCall
    \/ OpenAIReturns
    \/ OpenAIRaises
    \/ LoopStep
    \/ ModelResponds
    \/ ModelRaises
    \/ ProcessBlock
    \/ FinishResponse

Spec == Init /\ [][Next]_vars

(***************************************************************************)
(* The CLI commands implement, review and patch (src/src/aidev/cli.py)     *)
(***************************************************************************)
\* console.print of a message and sys.exit(status)
CliExit(c, message, status) ==
    [c EXCEPT !.pc = "exited",
              !.console = Append(c.console, message),
              !.exit = <<status>>]

\* the command goes on without looking at the specification file
load_spec_unchecked(c, conf) == [c EXCEPT !.pc = "run"]

\* implement / review: the specification file is looked for and loaded,
\* then implement asks for confirmation unless told not to
load_spec(c, conf) ==
    IF c.spec_file = "missing"
    THEN CliExit(c, "Specification file not found", 1)
    ELSE IF c.spec_file = "invalid"
    THEN CliExit(c, "Error loading specification", 1)
    ELSE IF /\ c.command = "implement"
            /\ ~c.auto_confirm
            /\ conf.require_confirmation
    THEN [c EXCEPT !.pc = "confirm"]
    ELSE [c EXCEPT !.pc = "run"]

CliLoadSpec ==
    /\ cli.command \in {"implement", "review"}
    /\ cli.pc = "start"
    /\ cli' = load_spec(cli, cfg)
    /\ UNCHANGED <<toolVars, driverVars>>

\* the answer to click.confirm is not looked at
CliConfirm_proceeds ==
    /\ cli.command = "implement"
    /\ cli.pc = "confirm"
    /\ \E answer \in BOOLEAN :
         cli' = [cli EXCEPT !.pc = "run", !.answer = <<answer>>]
    /\ UNCHANGED <<toolVars, driverVars>>

\* click.confirm("Proceed with implementation?")
CliConfirm ==
    /\ cli.command = "implement"
    /\ cli.pc = "confirm"
    /\ \E answer \in BOOLEAN :
         cli' = IF answer THEN [cli EXCEPT !.pc = "run",
                                          !.answer = <<answer>>]
                ELSE [cli EXCEPT !.pc = "exited",
                                 !.answer = <<answer>>,
                                 !.console = Append(cli.console,
                                                "Implementation cancelled"),
                                 !.exit = <<0>>]
    /\ UNCHANGED <<toolVars, driverVars>>

\* implement: the provider and the ToolExecutor are constructed and
\* implement_spec is called
CliImplementCall ==
    /\ cli.command = "implement"
    /\ cli.pc = "run"
    /\ cli' = [cli EXCEPT !.pc = "call",
                          !.constructed = {"AnthropicProvider", "ToolExecutor"},
                          !.console = Append(cli.console,
                                             "Starting implementation...")]
    /\ repo_root' = RepoRoot
    /\ UNCHANGED writers
    /\ allowed_commands' = build_allowed_commands(cfg, fs, RepoRoot)
    /\ func' = "implement_spec"
    /\ capArg' = cli.max_iterations
    /\ pc' = "wrapper"
    /\ UNCHANGED <<fs, cfg, opsDone, toolCall, toolResult, spawned, environ>>
    /\ UNCHANGED <<attempt, sleeps, ret, max_iterations, iteration, messages,
                   request, response, blockIdx, tool_results, text_content,
                   modelCalls, callLog>>

\* the status the implement command ends with once implement_spec is back:
\* the result is printed, whether ok or not, and the command returns; an
\* exception is printed and the command exits with 1
implement_exit(r) == IF r.kind = "raise" THEN 1 ELSE 0

\* implement: implement_spec returned or raised
CliImplementFinish ==
    /\ cli.command = "implement"
    /\ cli.pc = "call"
    /\ pc = "done"
    /\ cli' = CliExit(cli,
                      IF ret.kind = "raise" THEN "Error"
                      ELSE IF ret.value.ok THEN "Implementation completed"
                      ELSE "Implementation failed",
                      implement_exit(ret))
    /\ UNCHANGED <<toolVars, driverVars>>

\* review: the ToolExecutor is constructed and git_diff called; an error
\* or an empty diff ends the command, else the provider is constructed
\* and review_code called
CliReviewDiff ==
    /\ cli.command = "review"
    /\ cli.pc = "run"
    /\ repo_root' = RepoRoot
    /\ UNCHANGED writers
    /\ allowed_commands' = build_allowed_commands(cfg, fs, RepoRoot)
    /\ spawned' = spawned + 1
    /\ \E outcome \in GitOutcomes({<<>>, JoinDiff(DiffHeader \o
                                              << <<"+", "x">> >>)}) :
         LET r == git_diff(FALSE, outcome)
             c == [cli EXCEPT !.constructed = {"ToolExecutor"}]
         IN  /\ toolCall' = [op |-> "git_diff", staged |-> FALSE,
                             outcome |-> outcome.kind,
                             body |-> BodyOf(outcome.stdout)]
             /\ toolResult' = r
             /\ IF ~r.ok
                THEN /\ cli' = CliExit(c, "Error getting git diff", 1)
                     /\ UNCHANGED <<func, pc>>
                ELSE IF Strip(r.diff) = <<>>
                THEN /\ cli' = CliExit(c, "No changes to review", 0)
                     /\ UNCHANGED <<func, pc>>
                ELSE /\ cli' = [c EXCEPT
                                  !.pc = "call",
                                  !.constructed =
                                      {"ToolExecutor", "OpenAIProvider"},
                                  !.console = Append(c.console,
                                                "Reviewing code changes...")]
                     /\ func' = "review_code"
                     /\ pc' = "wrapper"
    /\ UNCHANGED <<fs, cfg, opsDone, environ>>
    /\ UNCHANGED <<attempt, sleeps, ret, capArg, max_iterations, iteration,
                   messages, request, response, blockIdx, tool_results,
                   text_content, modelCalls, callLog>>

\* review: review_code returned (the review is saved) or raised
CliReviewFinish ==
    /\ cli.command = "review"
    /\ cli.pc = "call"
    /\ pc = "done"
    /\ cli' = IF ret.kind = "raise" THEN CliExit(cli, "Error", 1)
              ELSE [CliExit(cli, "Review saved", 0) EXCEPT
                       !.written = {"aidev_review.json"}]
    /\ UNCHANGED <<toolVars, driverVars>>

\* patch: the ToolExecutor is constructed and git_diff called; an error
\* or an empty diff ends the command, as does showing the diff without
\* --apply; with --apply the user is asked when the configuration requires
\* confirmation
CliPatchDiff ==
    /\ cli.command = "patch"
    /\ cli.pc = "start"
    /\ repo_root' = RepoRoot
    /\ UNCHANGED writers
    /\ allowed_commands' = build_allowed_commands(cfg, fs, RepoRoot)
    /\ spawned' = spawned + 1
    /\ \E outcome \in GitOutcomes({<<>>, <<"\n">>,
                                   JoinDiff(DiffHeader \o
                                            << <<"+", "x">> >>)}) :
         LET r == git_diff(FALSE, outcome)
             c == [cli EXCEPT !.constructed = {"ToolExecutor"}]
         IN  /\ toolCall' = [op |-> "git_diff", staged |-> FALSE,
                             outcome |-> outcome.kind,
                             body |-> IF outcome.stdout = <<"\n">> THEN <<>>
                                      ELSE BodyOf(outcome.stdout)]
             /\ toolResult' = r
             /\ cli' =
                    IF ~r.ok THEN CliExit(c, "Error getting git diff", 1)
                    ELSE IF Strip(r.diff) = <<>>
                    THEN CliExit([c EXCEPT !.diff = <<r.diff>>],
                                 "No changes to show", 0)
                    ELSE IF ~c.apply
                    THEN CliExit([c EXCEPT !.diff = <<r.diff>>], "diff", 0)
                    ELSE [c EXCEPT !.diff = <<r.diff>>,
                                   !.pc = IF cfg.require_confirmation
                                          THEN "confirm" ELSE "apply"]
    /\ UNCHANGED <<fs, cfg, opsDone, environ>>
    /\ UNCHANGED driverVars

\* click.confirm("Apply changes to git staging area?")
CliPatchConfirm ==
    /\ cli.command = "patch"
    /\ cli.pc = "confirm"
    /\ \E answer \in BOOLEAN :
         cli' = IF answer THEN [cli EXCEPT !.pc = "apply",
                                          !.answer = <<answer>>]
                ELSE CliExit([cli EXCEPT !.answer = <<answer>>],
                             "Patch application cancelled", 0)
    /\ UNCHANGED <<toolVars, driverVars>>

\* patch --apply: git_apply stages the diff; its result is printed and the
\* command returns
CliPatchApply ==
    /\ cli.command = "patch"
    /\ cli.pc = "apply"
    /\ spawned' = spawned + 1
    /\ \E outcome \in GitOutcomes({<<>>}) :
         LET r == git_apply(cli.diff[1], TRUE, outcome)
         IN  /\ toolCall' = [op |-> "git_apply", staged |-> TRUE,
                             outcome |-> outcome.kind,
                             body |-> BodyOf(cli.diff[1])]
             /\ toolResult' = r
             /\ cli' = CliExit(cli,
                               IF r.ok
                               THEN "Changes applied to git staging area"
                               ELSE "Error applying patch", 0)
    /\ UNCHANGED <<fs, cfg, repo_root, writers, allowed_commands, opsDone,
                   environ>>
    /\ UNCHANGED driverVars

\* the --max-iterations option: absent, or a number
CliCapArgs == {<<>>, <<1>>}

\* the process starts: cli() has loaded the configuration, the command is
\* about to run; no ToolExecutor and no provider exists yet
InitCli ==
    /\ environ = EnvWithKeys(1)
    /\ fs = FS0
    /\ \E confirm \in BOOLEAN :
         cfg = [load_config(environ, YamlConfig(TRUE)) EXCEPT
                   !.require_confirmation = confirm]
    /\ repo_root = Root
    /\ writers = NoWriters
    /\ allowed_commands = EmptyBag
    /\ opsDone = 0
    /\ toolCall = [op |-> "none"]
    /\ toolResult = [ok |-> TRUE]
    /\ spawned = 0
    /\ func = "none"
    /\ pc = "idle"
    /\ attempt = 0
    /\ sleeps = <<>>
    /\ ret = [kind |-> "none"]
    /\ capArg = <<>>
    /\ max_iterations = 0
    /\ iteration = 0
    /\ messages = <<>>
    /\ request = <<>>
    /\ response = <<>>
    /\ blockIdx = 1
    /\ tool_results = <<>>
    /\ text_content = <<>>
    /\ modelCalls = 0
    /\ callLog = <<>>
    /\ \E command \in {"implement", "review", "patch"},
          spec_file \in {"missing", "invalid", "valid"},
          auto_confirm \in BOOLEAN, cap \in CliCapArgs, apply \in BOOLEAN :
         /\ command # "implement" => (~auto_confirm /\ cap = <<>>)
         /\ command # "patch" => ~apply
         /\ command = "patch" => spec_file = "valid"
         /\ cli = [command |-> command, spec_file |-> spec_file,
                   auto_confirm |-> auto_confirm, max_iterations |-> cap,
                   apply |-> apply, answer |-> <<>>, diff |-> <<>>,
                   pc |-> "start", console |-> <<>>, constructed |-> {},
                   written |-> {}, exit |-> <<>>]

NextCli ==
    \/ CliLoadSpec
    \/ CliConfirm
    \/ CliImplementCall
    \/ CliImplementFinish
    \/ CliReviewDiff
    \/ CliReviewFinish
    \/ CliPatchDiff
    \/ CliPatchConfirm
    \/ CliPatchApply
    \/ Next

SpecCli == InitCli /\ [][NextCli]_vars

(***************************************************************************)
(* The top-level script (src/aidev.py) and its tools (src/tools.py)        *)
(***************************************************************************)
MaxScriptCalls == MaxCap + 1   \* model calls of cmd_implement followed

ALLOWED_PREFIXES ==
  { <<"p", "y", "t", "e", "s", "t">>,
    <<"p", "y", "t", "h", "o", "n", " ", "-", "m", " ", "p", "y", "t", "e", "s", "t">>,
    <<"p", "i", "p", " ", "i", "n", "s", "t", "a", "l", "l", " ", "-", "r", " ", "r", "e", "q", "u", "i", "r", "e", "m", "e", "n", "t", "s", ".", "t", "x", "t">>,
    <<"r", "u", "f", "f">>,
    <<"b", "l", "a", "c", "k">>,
    <<"m", "y", "p", "y">>,
    <<"n", "p", "m", " ", "i", "n", "s", "t", "a", "l", "l">>,
    <<"n", "p", "m", " ", "t", "e", "s", "t">> }

\* what a tool of src/tools.py gives: a result, or an exception that the
\* function lets through
Returned(res, f, run) ==
    [raised |-> FALSE, result |-> res, fs |-> f, run |-> run]
Raised(e, f, run) ==
    [raised |-> TRUE, result |-> Err(<<e>>), fs |-> f, run |-> run]

\* src/tools.py read_file
tools_read_file(root, f, path) ==
    LET j == jail_path(root, f, path)
        t == j.target
    IN  IF j.raised THEN Raised("Path escapes repo jail", f, FALSE)
        ELSE IF ~Exists(f, t)
        THEN Returned(Err(<<"file not found">>), f, FALSE)
        ELSE IF ~IsFile(f, t) THEN Raised("Is a directory", f, FALSE)
        ELSE IF ~IsWithin(root, t)
        THEN Raised("is not in the subpath", f, FALSE)
        ELSE Returned([ok |-> TRUE, path |-> RelativeTo(t, root),
                       content |-> f[t].content], f, FALSE)

\* src/tools.py write_file
tools_write_file(root, f, path, content) ==
    LET j  == jail_path(root, f, path)
        t  == j.target
        mk == MkdirParents(f, Parent(t))
        wr == WriteText(mk.fs, t, content)
    IN  IF j.raised THEN Raised("Path escapes repo jail", f, FALSE)
        ELSE IF mk.raised THEN Raised("File exists", mk.fs, FALSE)
        ELSE IF IsDir(mk.fs, t) THEN Raised("Is a directory", mk.fs, FALSE)
        ELSE IF ~IsWithin(root, t)
        THEN Raised("is not in the subpath", wr, FALSE)
        ELSE Returned([ok |-> TRUE, path |-> RelativeTo(t, root),
                       bytes |-> ContentSize(content)], wr, FALSE)

\* src/tools.py bash
tools_bash(command, timeout, outcome) ==
    LET cmd == Strip(command)
    IN  IF ~(\E a \in ALLOWED_PREFIXES : IsPrefix(a, cmd))
        THEN Returned(Err(<<"command not allowed", cmd>>), fs, FALSE)
        ELSE CASE outcome.kind = "exit0" ->
                      Returned([ok |-> TRUE, returncode |-> 0,
                                stdout |-> LastChars(outcome.stdout),
                                stderr |-> LastChars(outcome.stderr)],
                               fs, TRUE)
               [] outcome.kind = "exit1" ->
                      Returned([ok |-> FALSE, returncode |-> 1,
                                stdout |-> LastChars(outcome.stdout),
                                stderr |-> LastChars(outcome.stderr)],
                               fs, TRUE)
               [] outcome.kind = "timeout" ->
                      Returned(Err(<<"timeout">>), fs, TRUE)
               [] OTHER -> Raised("OSError", fs, TRUE)

\* src/tools.py git_diff: whatever git's exit status, ok is True
tools_git_diff(outcome) ==
    CASE outcome.kind \in {"exit0", "exit1"} ->
             Returned([ok |-> TRUE, diff |-> outcome.stdout], fs, TRUE)
      [] outcome.kind = "timeout" -> Raised("TimeoutExpired", fs, TRUE)
      [] OTHER -> Raised("OSError", fs, TRUE)

\* src/tools.py git_apply
tools_git_apply(patch, outcome) ==
    CASE outcome.kind = "exit0" ->
             Returned([ok |-> TRUE, message |-> "patch staged (index)"],
                      fs, TRUE)
      [] outcome.kind = "exit1" ->
             Returned(Err(<<outcome.stderr>>), fs, TRUE)
      [] outcome.kind = "timeout" -> Raised("TimeoutExpired", fs, TRUE)
      [] OTHER -> Raised("OSError", fs, TRUE)

\* src/aidev.py _tool_execute: the dispatch by name; a missing argument is
\* a KeyError and, like every exception of a tool, is let through
tool_execute(name, payload, outcome) ==
    CASE name = "read_file" ->
            IF "path" \notin DOMAIN payload
            THEN Raised("KeyError", fs, FALSE)
            ELSE tools_read_file(RepoRoot, fs, payload.path)
      [] name = "write_file" ->
            IF {"path", "content"} \subseteq DOMAIN payload
            THEN tools_write_file(RepoRoot, fs, payload.path,
                                  payload.content)
            ELSE Raised("KeyError", fs, FALSE)
      [] name = "bash" ->
            IF "command" \notin DOMAIN payload
            THEN Raised("KeyError", fs, FALSE)
            ELSE tools_bash(payload.command,
                            IF "timeout" \in DOMAIN payload
                            THEN payload.timeout ELSE 90,
                            outcome)
      [] name = "git_diff" -> tools_git_diff(outcome)
      [] name = "git_apply" ->
            IF "patch" \notin DOMAIN payload
            THEN Raised("KeyError", fs, FALSE)
            ELSE tools_git_apply(payload.patch, outcome)
      [] OTHER -> Returned(Err(<<"unknown tool", name>>), fs, FALSE)

\* the responses the script is run against
ScriptResponses == {s \in Responses : Len(s) <= 2}

\* cmd_implement up to its loop: aidev_spec.json is looked for and loaded,
\* the conversation is seeded
ScriptStart ==
    /\ func = "cmd_implement"
    /\ pc = "start"
    /\ IF cli.spec_file = "missing"
       THEN /\ cli' = CliExit(cli, "aidev_spec.json not found", 1)
            /\ pc' = "done"
            /\ UNCHANGED messages
       ELSE IF cli.spec_file = "invalid"
       THEN /\ cli' = CliExit(cli, "JSONDecodeError", 1)
            /\ pc' = "done"
            /\ UNCHANGED messages
       ELSE /\ messages' = <<SeedMessage>>
            /\ pc' = "loop"
            /\ UNCHANGED cli
    /\ UNCHANGED <<func, attempt, sleeps, ret, capArg, max_iterations,
                   iteration, request, response, blockIdx, tool_results,
                   text_content, modelCalls, callLog>>
    /\ UNCHANGED toolVars

\* cmd_implement, `while True:` -- the next model call is issued
ScriptModelCall ==
    /\ func = "cmd_implement"
    /\ pc = "loop"
    /\ modelCalls < MaxScriptCalls
    /\ pc' = "await"
    /\ request' = messages
    /\ modelCalls' = modelCalls + 1
    /\ UNCHANGED <<func, attempt, sleeps, ret, capArg, max_iterations,
                   iteration, messages, response, blockIdx, tool_results,
                   text_content, callLog>>
    /\ UNCHANGED <<toolVars, cli>>

\* aclient.messages.create returns: with a tool_use block the assistant
\* turn is appended and the tools are run, without one the texts are
\* printed and the loop is left
ScriptModelResponds ==
    /\ func = "cmd_implement"
    /\ pc = "await"
    /\ \E content \in ScriptResponses :
         /\ response' = content
         /\ IF HasToolUse(content)
            THEN /\ callLog' = Append(callLog, "tool_use")
                 /\ messages' = Append(messages, [role |-> "assistant",
                                                  content |-> content])
                 /\ pc' = "blocks"
                 /\ UNCHANGED cli
            ELSE /\ callLog' = Append(callLog, "text")
                 /\ pc' = "done"
                 /\ cli' = [cli EXCEPT !.pc = "exited",
                                       !.console = Append(cli.console,
                                                          "Claude output:"),
                                       !.exit = <<0>>]
                 /\ UNCHANGED messages
    /\ tool_results' = <<>>
    /\ blockIdx' = 1
    /\ UNCHANGED <<func, attempt, sleeps, ret, capArg, max_iterations,
                   iteration, request, text_content, modelCalls>>
    /\ UNCHANGED toolVars

\* aclient.messages.create raises: nothing in cmd_implement catches it
ScriptModelRaises ==
    /\ func = "cmd_implement"
    /\ pc = "await"
    /\ \E e \in {"transient", "fatal"} :
         /\ callLog' = Append(callLog, e)
         /\ ret' = [kind |-> "raise", exc |-> e]
    /\ pc' = "done"
    /\ cli' = CliExit(cli, "Traceback", 1)
    /\ UNCHANGED <<func, attempt, sleeps, capArg, max_iterations, iteration,
                   messages, request, response, blockIdx, tool_results,
                   text_content, modelCalls>>
    /\ UNCHANGED toolVars

\* the next block of the response: a tool_use is executed and its result
\* collected; an exception of the tool ends the script
ScriptProcessBlock ==
    /\ func = "cmd_implement"
    /\ pc = "blocks"
    /\ blockIdx <= Len(response)
    /\ LET block == response[blockIdx]
       IN  IF block.type = "tool_use"
           THEN \E outcome \in ToolOutcomes(block.name, block.input) :
                  LET x == tool_execute(block.name, block.input, outcome)
                  IN  /\ fs' = x.fs
                      /\ toolCall' = [op |-> block.name]
                      /\ toolResult' = x.result
                      /\ spawned' = IF x.run THEN spawned + 1 ELSE spawned
                      /\ IF x.raised
                         THEN /\ pc' = "done"
                              /\ ret' = [kind |-> "raise",
                                         exc |-> x.result.error[1]]
                              /\ cli' = CliExit(cli, "Traceback", 1)
                              /\ UNCHANGED tool_results
                         ELSE /\ tool_results' =
                                     Append(tool_results,
                                            ToolResultBlock(block, x.result))
                              /\ UNCHANGED <<pc, ret, cli>>
           ELSE UNCHANGED <<tool_results, fs, toolCall, toolResult,
                            spawned, pc, ret, cli>>
    /\ blockIdx' = blockIdx + 1
    /\ UNCHANGED <<cfg, repo_root, writers, allowed_commands, opsDone, environ>>
    /\ UNCHANGED <<func, attempt, sleeps, capArg, max_iterations, iteration,
                   messages, request, response, text_content, modelCalls,
                   callLog>>

\* all blocks are processed: the user turn with the tool results is
\* appended, `continue`
ScriptContinue ==
    /\ func = "cmd_implement"
    /\ pc = "blocks"
    /\ blockIdx > Len(response)
    /\ messages' = Append(messages, [role |-> "user",
                                     content |-> tool_results])
    /\ pc' = "loop"
    /\ UNCHANGED <<func, attempt, sleeps, ret, capArg, max_iterations,
                   iteration, request, response, blockIdx, tool_results,
                   text_content, modelCalls, callLog>>
    /\ UNCHANGED <<toolVars, cli>>

\* `python aidev.py implement` is started in the repository, with the API
\* keys in the environment
InitScript ==
    /\ environ = EnvWithKeys(1)
    /\ Construct(load_config(environ, YamlConfig(TRUE)), FS0)
    /\ func = "cmd_implement"
    /\ pc = "start"
    /\ attempt = 0
    /\ sleeps = <<>>
    /\ ret = [kind |-> "none"]
    /\ capArg = <<>>
    /\ max_iterations = 0
    /\ iteration = 0
    /\ messages = <<>>
    /\ request = <<>>
    /\ response = <<>>
    /\ blockIdx = 1
    /\ tool_results = <<>>
    /\ text_content = <<>>
    /\ modelCalls = 0
    /\ callLog = <<>>
    /\ \E spec_file \in {"missing", "invalid", "valid"} :
         cli = [command |-> "aidev.py implement", spec_file |-> spec_file,
                pc |-> "start", console |-> <<>>, exit |-> <<>>]

NextScript ==
    \/ ScriptStart
    \/ ScriptModelCall
    \/ ScriptModelResponds
    \/ ScriptModelRaises
    \/ ScriptProcessBlock
    \/ ScriptContinue

SpecScript == InitScript /\ [][NextScript]_vars

(***************************************************************************)
(* Two invocations writing into one repository: ToolExecutor.write_file    *)
(* statement by statement, the statements of the two calls interleaved     *)
(***************************************************************************)
Writers == {1, 2}
\* an existing file of the repository, and a name that is not taken
RacePaths ==
    {[abs |-> FALSE, parts |-> <<NmF>>], [abs |-> FALSE, parts |-> <<NmR2>>]}
RaceContents == {"c1", "c2"}

\* a call that has not started
IdleCall ==
    [pc |-> "idle", path |-> [abs |-> FALSE, parts |-> <<>>],
     content |-> None, target |-> <<>>, had |-> FALSE, overwrote |-> None,
     result |-> <<>>]

\* the call of writer w becomes c; ev, when given, is appended to the log
\* of filesystem operations
WriterStep(w, c, ev) ==
    writers' = [calls |-> [writers.calls EXCEPT ![w] = c],
                log   |-> writers.log \o ev]

\* the call returns res
WriterDone(w, res) ==
    WriterStep(w, [writers.calls[w] EXCEPT !.pc = "done",
                                           !.result = <<res>>], <<>>)

\* file_path = self._jail_path(path)
WriterCall(w) ==
    /\ writers.calls[w].pc = "idle"
    /\ \E path \in RacePaths, content \in RaceContents :
         LET j == jail_path(repo_root, fs, path)
             c == [writers.calls[w] EXCEPT !.path = path,
                                           !.content = content,
                                           !.target = j.target]
         IN  IF j.raised
             THEN WriterStep(w, [c EXCEPT !.pc = "done",
                                 !.result =
                                     <<Err(<<"escapes repository jail">>)>>],
                             <<>>)
             ELSE WriterStep(w, [c EXCEPT !.pc = "mkdir"], <<>>)
    /\ UNCHANGED <<fs, cfg, repo_root, allowed_commands, opsDone, toolCall,
                   toolResult, spawned, environ>>
    /\ UNCHANGED <<driverVars, cli>>

\* file_path.parent.mkdir(parents=True, exist_ok=True)
WriterMkdir(w) ==
    /\ writers.calls[w].pc = "mkdir"
    /\ LET mk == MkdirParents(fs, Parent(writers.calls[w].target))
       IN  IF mk.raised
           THEN /\ WriterDone(w, Err(<<"File exists">>))
                /\ UNCHANGED fs
           ELSE /\ WriterStep(w, [writers.calls[w] EXCEPT !.pc = "exists"],
                              <<>>)
                /\ fs' = mk.fs
    /\ UNCHANGED <<cfg, repo_root, allowed_commands, opsDone, toolCall,
                   toolResult, spawned, environ>>
    /\ UNCHANGED <<driverVars, cli>>

\* if file_path.exists():
WriterExists(w) ==
    /\ writers.calls[w].pc = "exists"
    /\ LET had == Exists(fs, writers.calls[w].target)
       IN  WriterStep(w, [writers.calls[w] EXCEPT
                              !.had = had,
                              !.pc = IF had THEN "copy" ELSE "write"], <<>>)
    /\ UNCHANGED <<fs, cfg, repo_root, allowed_commands, opsDone, toolCall,
                   toolResult, spawned, environ>>
    /\ UNCHANGED <<driverVars, cli>>

\* shutil.copy2(file_path, backup_path)
WriterCopy(w) ==
    /\ writers.calls[w].pc = "copy"
    /\ LET t  == writers.calls[w].target
           bk == Copy2(fs, t, BackupPath(t))
       IN  IF bk.raised
           THEN /\ WriterDone(w, Err(<<"Is a directory">>))
                /\ UNCHANGED fs
           ELSE /\ WriterStep(w, [writers.calls[w] EXCEPT !.pc = "write"],
                              << <<w, "copy">> >>)
                /\ fs' = bk.fs
    /\ UNCHANGED <<cfg, repo_root, allowed_commands, opsDone, toolCall,
                   toolResult, spawned, environ>>
    /\ UNCHANGED <<driverVars, cli>>

\* the content of the regular file at t, None when there is none
ContentAt(f, t) == IF IsFile(f, t) THEN f[t].content ELSE None

\* write_text preceded by a copy of what the target holds at that moment
WriterWrite_copies_first(w) ==
    /\ writers.calls[w].pc = "write"
    /\ LET t  == writers.calls[w].target
           bk == IF IsFile(fs, t) THEN Copy2(fs, t, BackupPath(t)).fs ELSE fs
       IN  /\ WriterStep(w, [writers.calls[w] EXCEPT
                                 !.overwrote = ContentAt(fs, t),
                                 !.pc = "return"],
                         << <<w, "write">> >>)
           /\ fs' = WriteText(bk, t, writers.calls[w].content)
    /\ UNCHANGED <<cfg, repo_root, allowed_commands, opsDone, toolCall,
                   toolResult, spawned, environ>>
    /\ UNCHANGED <<driverVars, cli>>

\* file_path.write_text(content, encoding="utf-8")
WriterWrite(w) ==
    /\ writers.calls[w].pc = "write"
    /\ LET t == writers.calls[w].target
       IN  /\ WriterStep(w, [writers.calls[w] EXCEPT
                                 !.overwrote = ContentAt(fs, t),
                                 !.pc = "return"],
                         << <<w, "write">> >>)
           /\ fs' = WriteText(fs, t, writers.calls[w].content)
    /\ UNCHANGED <<cfg, repo_root, allowed_commands, opsDone, toolCall,
                   toolResult, spawned, environ>>
    /\ UNCHANGED <<driverVars, cli>>

\* relative_to(self.repo_root) and the result of write_file
WriterReturn(w) ==
    /\ writers.calls[w].pc = "return"
    /\ LET c == writers.calls[w]
           t == c.target
       IN  IF ~IsWithin(repo_root, t)
           THEN WriterDone(w, Err(<<"is not in the subpath">>))
           ELSE IF c.had
           THEN WriterDone(w, [ok |-> TRUE, path |-> RelativeTo(t, repo_root),
                               size |-> ContentSize(c.content),
                               backup |-> RelativeTo(BackupPath(t),
                                                     repo_root)])
           ELSE WriterDone(w, [ok |-> TRUE, path |-> RelativeTo(t, repo_root),
                               size |-> ContentSize(c.content)])
    /\ UNCHANGED <<fs, cfg, repo_root, allowed_commands, opsDone, toolCall,
                   toolResult, spawned, environ>>
    /\ UNCHANGED <<driverVars, cli>>

\* each invocation has constructed its ToolExecutor on the same repository
InitRace ==
    /\ environ = EnvWithKeys(1)
    /\ fs = FS0
    /\ cfg = load_config(environ, YamlConfig(TRUE))
    /\ repo_root = RepoRoot
    /\ allowed_commands = build_allowed_commands(cfg, FS0, RepoRoot)
    /\ opsDone = 0
    /\ toolCall = [op |-> "none"]
    /\ toolResult = [ok |-> TRUE]
    /\ spawned = 0
    /\ writers = [calls |-> [w \in Writers |-> IdleCall], log |-> <<>>]
    /\ DriverIdle

NextRace ==
    \E w \in Writers :
        \/ WriterCall(w)
        \/ WriterMkdir(w)
        \/ WriterExists(w)
        \/ WriterCopy(w)
        \/ WriterWrite(w)
        \/ WriterReturn(w)

SpecRace == InitRace /\ [][NextRace]_vars

(***************************************************************************)
(* Claims about the sandbox                                                *)
(***************************************************************************)
IsFileOp == toolCall.op \in {"read_file", "write_file"}

\* C1: every read_file or write_file whose canonical target is neither the
\* repository root nor below it is refused by the jail: the jail does not
\* let it pass and the result is ok=false with the path-escape error.
C1_PathConfinement ==
    (IsFileOp /\ ~IsWithin(repo_root, toolCall.target))
        => /\ ~toolCall.passed
           /\ toolResult.ok = FALSE
           /\ toolResult.error = <<"escapes repository jail">>

\* C2: a read_file or write_file that the jail rejects leaves the
\* filesystem as it was (no directory, backup or file is created or
\* changed) and reads no file content.
C2_NoSideEffectsOnEscape ==
    [][(opsDone' # opsDone
        /\ toolCall'.op \in {"read_file", "write_file"}
        /\ ~toolCall'.passed)
          => (fs' = fs /\ toolCall'.read = {})]_vars

\* a write whose target lies outside the repository, below a directory
\* that does not exist, was rejected
C2_Witness ==
    /\ toolCall.op = "write_file"
    /\ ~toolCall.passed
    /\ ~Exists(fs, Parent(toolCall.target))
    /\ toolResult = Err(<<"escapes repository jail">>)

\* the command without the whitespace around it, by positions: s[i..j]
\* where i and j are the first and the last non-whitespace position
Trimmed(s) ==
    LET solid == {k \in 1..Len(s) : s[k] \notin Whitespace}
    IN  IF solid = {} THEN <<>>
        ELSE LET i == CHOOSE k \in solid : \A m \in solid : k <= m
                 j == CHOOSE k \in solid : \A m \in solid : m <= k
             IN  [k \in 1..(j - i + 1) |-> s[i + k - 1]]

StartsWithAllowed(s) ==
    \E a \in BagToSet(allowed_commands) :
        /\ Len(a) <= Len(s)
        /\ \A k \in 1..Len(a) : s[k] = a[k]

\* C3: bash starts a subprocess for a command exactly when the command,
\* trimmed of surrounding whitespace, starts with one of the allowed
\* prefixes; for any other command no subprocess is started.
C3_CommandGate ==
    toolCall.op = "bash"
        => /\ toolCall.run <=> StartsWithAllowed(Trimmed(toolCall.command))
           /\ spawned = IF toolCall.run THEN 1 ELSE 0

\* an allowed command given with whitespace around it and an argument
\* after the prefix was run
C3_Witness ==
    /\ toolCall.op = "bash"
    /\ toolCall.run
    /\ spawned = 1
    /\ toolCall.command # Trimmed(toolCall.command)
    /\ Trimmed(toolCall.command) \notin BagToSet(allowed_commands)

\* C4: a bash call refused by the gate returns ok=false, the
\* disallowed-command error and the whole allowed list of the session, and
\* no returncode, stdout or stderr.
C4_RejectedEnvelope ==
    (toolCall.op = "bash" /\ ~toolCall.run)
        => /\ toolResult.ok = FALSE
           /\ DOMAIN toolResult = {"ok", "error", "allowed_prefixes"}
           /\ toolResult.error =
                  <<"Command not allowed", Trimmed(toolCall.command)>>
           /\ toolResult.allowed_prefixes = allowed_commands
           /\ spawned = 0

\* a command was refused in a session whose allowed list holds
\* auto-detected prefixes next to the configured ones
C4_Witness ==
    /\ toolCall.op = "bash"
    /\ ~toolCall.run
    /\ BagToSet(toolResult.allowed_prefixes)
           # Range(cfg.tools.allowed_commands)
    /\ toolResult.allowed_prefixes # EmptyBag


(***************************************************************************)
(* Claims about the tool-call loop                                         *)
(***************************************************************************)
IsImpl == func = "implement_spec"
Last(q) == q[Len(q)]

RECURSIVE ToolUsesOf(_)
ToolUsesOf(content) ==
    IF content = <<>> THEN <<>>
    ELSE IF Head(content).type = "tool_use"
         THEN <<Head(content)>> \o ToolUsesOf(Tail(content))
         ELSE ToolUsesOf(Tail(content))

RECURSIVE TextsOf(_)
TextsOf(content) ==
    IF content = <<>> THEN <<>>
    ELSE IF Head(content).type = "text"
         THEN <<Head(content).text>> \o TextsOf(Tail(content))
         ELSE TextsOf(Tail(content))

AllToolUse == \A i \in DOMAIN callLog : callLog[i] = "tool_use"

\* how the last model call that returned a response ended
LastResponseKind ==
    LET got == {i \in DOMAIN callLog : callLog[i] \in {"tool_use", "text"}}
    IN  IF got = {} THEN "none"
        ELSE callLog[CHOOSE i \in got : \A k \in got : k <= i]

\* the number of transient errors the call log ends with
TrailingTransients ==
    LET other == {i \in DOMAIN callLog : callLog[i] # "transient"}
    IN  IF other = {} THEN Len(callLog)
        ELSE Len(callLog) - (CHOOSE i \in other : \A k \in other : k <= i)

\* C5: with a cap N >= 1 the number of model calls never exceeds N, and
\* when every model response requests a tool the invocation ends after
\* exactly N model calls with ok=false, the 'Maximum iterations' error and
\* iterations = N.
C5_LoopTermination ==
    (IsImpl /\ max_iterations >= 1)
        => /\ modelCalls <= max_iterations
           /\ (pc = "done" /\ AllToolUse)
                 => /\ modelCalls = max_iterations
                    /\ Len(callLog) = max_iterations
                    /\ ret = [kind |-> "value",
                              value |-> [ok |-> FALSE,
                                         error |-> <<"Maximum iterations",
                                                     max_iterations>>,
                                         iterations |-> max_iterations]]

\* the invocation ended at the largest cap after as many tool-requesting
\* responses
C5_Witness ==
    /\ IsImpl
    /\ pc = "done"
    /\ max_iterations = MaxCap
    /\ Len(callLog) = MaxCap
    /\ AllToolUse
    /\ ret.value.ok = FALSE

\* C6: with a cap >= 2, a first response that requests a tool and a second
\* response without a tool request end the invocation after exactly 2
\* model calls with ok=true and the text of the second response alone as
\* the summary.
C6_LoopConvergence ==
    (/\ IsImpl
     /\ max_iterations >= 2
     /\ Len(callLog) >= 2
     /\ callLog[1] = "tool_use"
     /\ callLog[2] = "text"
     /\ pc # "blocks")
        => /\ pc = "done"
           /\ modelCalls = 2
           /\ Len(callLog) = 2
           /\ ret = [kind |-> "value",
                     value |-> [ok |-> TRUE, iterations |-> 2,
                                response |-> JoinLines(TextsOf(response))]]

\* the invocation converged on a text after a first response that held a
\* text next to its tool request
C6_Witness ==
    /\ IsImpl
    /\ pc = "done"
    /\ callLog = <<"tool_use", "text">>
    /\ TextsOf(messages[2].content) # <<>>
    /\ ret.value.response = "t1"

\* C7: when a model call is issued after a response with k >= 1 tool_use
\* blocks, the conversation is the one sent with the previous call followed
\* by the assistant turn holding that response and one user turn of k tool
\* results, carrying the ids of the tool_use blocks in their order.
C7_FanOutFanIn ==
    [][(/\ modelCalls' = modelCalls + 1
        /\ callLog # <<>>
        /\ Last(callLog) = "tool_use")
          => LET n    == Len(request)
                 uses == ToolUsesOf(response)
             IN  /\ Len(messages) = n + 2
                 /\ SubSeq(messages, 1, n) = request
                 /\ messages[n + 1] =
                        [role |-> "assistant", content |-> response]
                 /\ messages[n + 2].role = "user"
                 /\ Len(messages[n + 2].content) = Len(uses)
                 /\ \A i \in DOMAIN uses :
                        /\ messages[n + 2].content[i].type = "tool_result"
                        /\ messages[n + 2].content[i].tool_use_id = uses[i].id
       ]_vars

\* a second model call is outstanding after a response with two tool_use
\* blocks of different ids
C7_Witness ==
    /\ IsImpl
    /\ pc = "await"
    /\ modelCalls = 2
    /\ callLog = <<"tool_use">>
    /\ Len(ToolUsesOf(response)) = 2
    /\ ToolUsesOf(response)[1].id # ToolUsesOf(response)[2].id
    /\ Len(messages) = 3

\* C8: implement_spec returns ok=true exactly when the last model response
\* it received held no tool request; every other return is ok=false.
C8_DoneOnlySuccess ==
    (IsImpl /\ pc = "done")
        => /\ ret.kind = "value"
           /\ ret.value.ok <=> LastResponseKind = "text"

\* the invocation succeeded on its second model call
C8_Witness ==
    /\ IsImpl
    /\ pc = "done"
    /\ ret.value.ok
    /\ modelCalls = 2
    /\ LastResponseKind = "text"

\* C9: after a transient error of a model call inside implement_spec the
\* same call is retried after a backoff delay of 1, 2, 4, ... seconds, and
\* the error fails the invocation only once the call was attempted
\* MaxRetries + 1 times.
C9_TransientRetried ==
    (IsImpl /\ callLog # <<>> /\ Last(callLog) = "transient")
        => /\ sleeps # <<>>
           /\ \A i \in DOMAIN sleeps : sleeps[i] = Pow(BackoffFactor, i - 1)
           /\ pc = "done" => TrailingTransients = MaxRetries + 1

\* C10: a non-transient error of a model call inside implement_spec ends
\* the invocation with that error; no model call follows it.
C10_FatalAborts ==
    IsImpl
        => \A i \in DOMAIN callLog :
               callLog[i] = "fatal"
                   => /\ i = Len(callLog)
                      /\ pc = "done"
                      /\ ret.kind \in {"value", "raise"}
                      /\ ret.kind = "value"
                            => ret.value = [ok |-> FALSE,
                                            error |-> <<"fatal">>,
                                            iterations |-> iteration + 1]

(***************************************************************************)
(* Claims about the result envelopes, timeouts and secrets                 *)
(***************************************************************************)
\* the fields a ToolResult carries on success
SuccessFields ==
    {"returncode", "stdout", "stderr", "duration", "path", "content",
     "size", "backup", "diff", "stats", "staged", "message", "files"}

\* C11: every result with ok=false of a ToolExecutor operation carries an
\* 'error' text and none of the success fields, a command that ran and
\* exited non-zero included.
C11_FailureEnvelope ==
    (toolCall.op # "none" /\ ~toolResult.ok)
        => /\ "error" \in DOMAIN toolResult
           /\ DOMAIN toolResult \cap SuccessFields = {}

\* C13: the timeout handed to the subprocess lies in 1..max_timeout
\* whatever timeout was requested.
C13_TimeoutClamped ==
    (toolCall.op = "bash" /\ toolCall.run)
        => /\ 1 <= toolCall.effective[1]
           /\ toolCall.effective[1] <= cfg.tools.max_timeout

\* C14: a command still running when its timeout expires gives
\* {ok:false, error:"timeout"} and none of the processes started for it
\* is running when bash returns.
C14_TimeoutBounding ==
    (toolCall.op = "bash" /\ toolCall.run /\ toolCall.outcome = "timeout")
        => /\ toolResult = Err(<<"timeout">>)
           /\ toolCall.running = 0

\* the configured API keys
ApiKeys == {cfg.openai_api_key, cfg.anthropic_api_key}

\* C20: no API key value is part of what bash returns: not of stdout, of
\* stderr or of the error.
C20_NoSecretLeak ==
    toolCall.op = "bash"
        => /\ \A f \in {"stdout", "stderr"} \cap DOMAIN toolResult :
                  toolResult[f].text \notin ApiKeys
           /\ "error" \in DOMAIN toolResult
                  => toolResult.error[1] \notin ApiKeys

(***************************************************************************)
(* Claims about file sizes and backups                                     *)
(***************************************************************************)
\* C15: read_file of a file inside the repository returns its content when
\* the file holds at most 1,000,000 bytes, exactly that many included, and
\* with one byte more returns ok=false, the too-large error and no content,
\* and does not read the file.
C15_SizeCap ==
    (/\ toolCall.op = "read_file"
     /\ IsFile(fs, toolCall.target)
     /\ IsWithin(repo_root, toolCall.target))
        => IF StSize(fs, toolCall.target) <= 1000000
           THEN /\ toolResult.ok
                /\ toolResult.content = fs[toolCall.target].content
                /\ toolCall.read = {toolCall.target}
           ELSE /\ toolResult = Err(<<"File too large (>1MB)">>)
                /\ toolCall.read = {}

\* a file of exactly 1,000,000 bytes was read
C15_Witness ==
    /\ toolCall.op = "read_file"
    /\ toolResult.ok
    /\ StSize(fs, toolCall.target) = 1000000
    /\ toolResult.content = "capsize"

\* C16: after a successful write_file onto an existing file, the file named
\* as the target plus '.bak' holds what the target held before the call
\* and the target holds the new content; a successful write_file of a new
\* file creates no backup.
C16_BackupOnOverwrite ==
    [][(/\ opsDone' # opsDone
        /\ toolCall'.op = "write_file"
        /\ toolResult'.ok)
          => LET t == toolCall'.target
                 b == BackupPath(t)
             IN  /\ IsFile(fs', t)
                 /\ fs'[t].content = toolCall'.content
                 /\ IF IsFile(fs, t)
                    THEN /\ IsFile(fs', b)
                         /\ fs'[b].content = fs[t].content
                    ELSE /\ "backup" \notin DOMAIN toolResult'
                         /\ \A q \in DOMAIN fs' \ DOMAIN fs :
                                q # t => IsDir(fs', q)
       ]_vars

RECURSIVE CountKind(_, _)
CountKind(body, lines) ==
    IF body = <<>> THEN 0
    ELSE (IF Head(body) \in lines THEN 1 ELSE 0) + CountKind(Tail(body), lines)

\* C17: the stats of a successful git_diff are the number of added lines
\* and the number of removed lines of the diff, whatever those lines
\* contain; only the two file-header lines are left out.
C17_DiffStats ==
    (toolCall.op = "git_diff" /\ toolResult.ok)
        => /\ toolResult.stats.additions = CountKind(toolCall.body, AddedLines)
           /\ toolResult.stats.deletions =
                  CountKind(toolCall.body, RemovedLines)

(***************************************************************************)
(* Claims about tool failures in the loop                                  *)
(***************************************************************************)
\* C12: processing a tool_use block never raises: the dispatch returns an
\* envelope, which for a failure is ok=false with an error, the envelope
\* is collected as the block's result, and after a response with tool_use
\* blocks the loop goes on to its next iteration instead of returning.
C12_ToolFailuresContained ==
    [][/\ (/\ pc = "blocks"
           /\ blockIdx' = blockIdx + 1
           /\ response[blockIdx].type = "tool_use")
             => /\ "ok" \in DOMAIN toolResult'
                /\ ~toolResult'.ok => "error" \in DOMAIN toolResult'
                /\ tool_results' =
                       Append(tool_results,
                              [type |-> "tool_result",
                               tool_use_id |-> response[blockIdx].id,
                               content |-> JsonDumps(toolResult')])
                /\ pc' = "blocks"
                /\ ret' = ret
       /\ (/\ pc = "blocks"
           /\ pc' # "blocks"
           /\ HasToolUse(response))
             => /\ pc' = "loop"
                /\ iteration' = iteration + 1
                /\ ret' = ret
      ]_vars

(***************************************************************************)
(* Claims about the CLI commands                                           *)
(***************************************************************************)
\* the driver ended in FAILED: implement_spec returned ok=false or raised
DriverFailed ==
    /\ pc = "done"
    /\ \/ ret.kind = "raise"
       \/ ret.kind = "value" /\ ~ret.value.ok
DriverDone == pc = "done" /\ ret.kind = "value" /\ ret.value.ok
Declined ==
    cli.console # <<>> /\ Last(cli.console) = "Implementation cancelled"

\* C18: implement exits non-zero whenever the driver ended in FAILED (the
\* cap was reached or the last permitted model call failed) and exits
\* zero only when the driver reached DONE or the user declined.
C18_ImplementExitStatus ==
    (cli.command = "implement" /\ cli.exit # <<>>)
        => /\ DriverFailed => cli.exit # <<0>>
           /\ cli.exit = <<0>> => (DriverDone \/ Declined)

\* C19: with the specification file missing, implement and review end
\* with a non-zero status in their first step, before any provider or
\* ToolExecutor is constructed: no model call, no tool, no subprocess, no
\* file written.
C19_MissingPrerequisite ==
    (cli.command \in {"implement", "review"} /\ cli.spec_file = "missing")
        => /\ cli.pc \in {"start", "exited"}
           /\ cli.pc = "exited" => (cli.exit # <<>> /\ cli.exit # <<0>>)
           /\ cli.constructed = {}
           /\ cli.written = {}
           /\ modelCalls = 0
           /\ toolCall.op = "none"
           /\ spawned = 0
           /\ fs = FS0

\* review ended with status 1 on a missing specification file
C19_Witness ==
    /\ cli.command = "review"
    /\ cli.spec_file = "missing"
    /\ cli.exit = <<1>>
    /\ cli.console = <<"Specification file not found">>

(***************************************************************************)
(* Claims about list_files                                                 *)
(***************************************************************************)
\* the entries the pattern of the last list_files matches that are regular
\* files
RegularMatches ==
    {x \in Glob(fs, repo_root, toolCall.pattern) : IsFileFollow(fs, x.at)}

\* C21: a list_files with max_files >= 0 that succeeds returns exactly
\* min(max_files, R) entries, R being the number of regular files the
\* pattern matches, and every entry returned is one of those regular
\* files: directories are dropped before the truncation.
C21_ListFilesSize ==
    (toolCall.op = "list_files" /\ toolCall.max_files >= 0 /\ toolResult.ok)
        => LET R == Cardinality(RegularMatches)
           IN  /\ Cardinality(toolResult.files) =
                      (IF toolCall.max_files < R THEN toolCall.max_files
                       ELSE R)
               /\ \A e \in toolResult.files :
                      \E x \in RegularMatches : x.rel = e.path

\* C22: every entry a list_files returns, whatever the pattern (one with
\* '..' included), names a file that is the repository root's descendant,
\* and no file outside the repository root is looked at.
C22_ListFilesConfined ==
    toolCall.op = "list_files"
        => /\ \A q \in toolCall.stated : IsWithin(repo_root, q)
           /\ toolResult.ok
                 => \A e \in toolResult.files :
                        IsWithin(repo_root,
                                 Realpath(fs, Root, repo_root \o e.path))

(***************************************************************************)
(* Claims about the top-level script                                       *)
(***************************************************************************)
\* C23: the tool-call loop of cmd_implement is bounded by the configured
\* iteration cap whatever the model answers: the number of model calls it
\* issues never exceeds the cap, also when every response requests a tool.
C23_ScriptLoopBounded ==
    func = "cmd_implement" => modelCalls <= cfg.max_iterations

(***************************************************************************)
(* Claims about the configuration                                          *)
(***************************************************************************)
\* the field of the configuration an environment variable stands for
FieldOf(c, name) ==
    CASE name = "OPENAI_API_KEY" -> c.openai_api_key
      [] name = "ANTHROPIC_API_KEY" -> c.anthropic_api_key
      [] name = "OPENAI_MODEL" -> c.models.openai_model
      [] name = "ANTHROPIC_MODEL" -> c.models.anthropic_model
      [] name = "AIDEV_REPO" -> c.target_repo

\* what the configuration file gives for that field, or the default
FileOrDefault(data, name) ==
    LET Top(k) == IF k \in DOMAIN data THEN data[k] ELSE None
        Model(k, default) ==
            IF "models" \in DOMAIN data /\ k \in DOMAIN data.models
            THEN data.models[k] ELSE default
    IN  CASE name = "OPENAI_API_KEY" -> Top("openai_api_key")
          [] name = "ANTHROPIC_API_KEY" -> Top("anthropic_api_key")
          [] name = "OPENAI_MODEL" -> Model("openai_model", "gpt-4o")
          [] name = "ANTHROPIC_MODEL" ->
                 Model("anthropic_model", "claude-3-5-sonnet-20241022")
          [] name = "AIDEV_REPO" -> Top("target_repo")

IsSet(name) == name \in DOMAIN environ /\ environ[name] # ""

\* C24: for each of the five variables, when it is set to a non-empty
\* value the field of the configuration load_config returns equals that
\* value, whatever the configuration file holds and also without a file;
\* a field whose variable is not set has the file's value or the default.
C24_EnvOverrides ==
    toolCall.op = "load_config"
        => \A name \in ConfigVariables :
               FieldOf(cfg, name) =
                   IF IsSet(name) THEN environ[name]
                   ELSE FileOrDefault(toolCall.file, name)

\* a file giving both keys, a model and the repository was loaded with
\* OPENAI_MODEL and AIDEV_REPO set and the other variables not set
C24_Witness ==
    /\ toolCall.op = "load_config"
    /\ "target_repo" \in DOMAIN toolCall.file
    /\ IsSet("OPENAI_MODEL") /\ IsSet("AIDEV_REPO")
    /\ ~IsSet("OPENAI_API_KEY") /\ ~IsSet("ANTHROPIC_MODEL")
    /\ cfg.models.openai_model = "env:OPENAI_MODEL"
    /\ cfg.target_repo = "env:AIDEV_REPO"
    /\ cfg.openai_api_key = "sk-openai-yaml"
    /\ cfg.models.anthropic_model = "claude-3-5-sonnet-20241022"

\* C25: a configuration with a negative tools.default_timeout is rejected:
\* no configuration object built by AIDevConfig or load_config has one.
C25_NegativeTimeoutRejected ==
    toolCall.op \in {"AIDevConfig", "load_config"}
        => cfg.tools.default_timeout >= 0

(***************************************************************************)
(* Claims about the session constants                                      *)
(***************************************************************************)
\* the prefixes mapped from the manifests found at the top level of the
\* repository
DetectedPrefixes ==
    UNION {Range(package_files[i].tools) :
              i \in {k \in DOMAIN package_files :
                        Exists(fs, repo_root \o <<package_files[k].file>>)}}

\* C26: the allowed commands a ToolExecutor is constructed with are the
\* configured baseline together with, when auto-detection is on, the
\* prefixes of every manifest that exists at the top level of the
\* repository; no prefix occurs twice, and a manifest that is absent or
\* lies only in a subdirectory adds nothing.
C26_AllowedCommandSet ==
    toolCall.op = "ToolExecutor"
        => /\ BagToSet(allowed_commands) =
                  Range(cfg.tools.allowed_commands)
                  \cup (IF cfg.auto_detect_tools THEN DetectedPrefixes
                        ELSE {})
           /\ \A a \in BagToSet(allowed_commands) :
                  CopiesIn(a, allowed_commands) = 1

\* constructed with auto-detection on a repository with package.json at
\* its top level, whose 'npm install' the default baseline holds too, and
\* Cargo.toml only in a subdirectory
C26_Witness ==
    /\ toolCall.op = "ToolExecutor"
    /\ cfg.auto_detect_tools
    /\ cfg.tools.allowed_commands = DefaultAllowedCommands
    /\ Exists(fs, <<NmR, NmPackageJson>>)
    /\ ~Exists(fs, <<NmR, NmCargoToml>>)
    /\ Exists(fs, <<NmR, NmR2 \o BakSuffix, NmCargoToml>>)
    /\ BagIn(<<"n", "p", "m", " ", "r", "u", "n">>, allowed_commands)
    /\ ~BagIn(<<"c", "a", "r", "g", "o", " ", "r", "u", "n">>,
              allowed_commands)

\* C27: no tool operation on a ToolExecutor, a write_file that creates a
\* manifest and a failing call included, changes repo_root or
\* allowed_commands: they keep the values construction gave them.
C27_SessionConstants ==
    [][opsDone' # opsDone
          => /\ repo_root' = repo_root
             /\ allowed_commands' = allowed_commands
             /\ repo_root' = RepoRoot
             /\ UNCHANGED writers
             /\ allowed_commands' =
                    build_allowed_commands(cfg, FS0, RepoRoot)]_vars

\* in a session with auto-detection on, write_file has created
\* package.json at the top level, and the allowed commands are not the
\* ones a construction would build now
C27_Witness ==
    /\ toolCall.op = "write_file"
    /\ toolResult.ok
    /\ toolCall.target = <<NmR, NmPackageJson>>
    /\ cfg.auto_detect_tools
    /\ ~Exists(FS0, <<NmR, NmPackageJson>>)
    /\ allowed_commands # build_allowed_commands(cfg, fs, repo_root)
    /\ ~BagIn(<<"n", "p", "m", " ", "r", "u", "n">>, allowed_commands)

(***************************************************************************)
(* Claims about failures of the loop and about with_retry                  *)
(***************************************************************************)
ModelErrors == {"transient", "fatal"}

\* C28: implement_spec returns ok=false in two cases only: the iteration
\* counter reached the cap and the last response was not a tool-free one,
\* with the 'Maximum iterations' error; or the model call of the last
\* permitted iteration raised, with that error's message.  An error of a
\* model call on an earlier iteration leaves the conversation as it was,
\* uses up exactly one iteration, and the loop goes on to its next model
\* call.
C28_FailedTransitions ==
    [][IsImpl =>
        /\ (pc # "done" /\ pc' = "done")
              => /\ ret'.kind = "value"
                 /\ ~ret'.value.ok
                       => \/ /\ pc = "loop"
                             /\ iteration >= max_iterations
                             /\ LastResponseKind # "text"
                             /\ ret'.value =
                                    [ok |-> FALSE,
                                     error |-> <<"Maximum iterations",
                                                 max_iterations>>,
                                     iterations |-> max_iterations]
                          \/ /\ pc = "await"
                             /\ iteration = max_iterations - 1
                             /\ Len(callLog') = Len(callLog) + 1
                             /\ Last(callLog') \in ModelErrors
                             /\ ret'.value =
                                    [ok |-> FALSE,
                                     error |-> <<Last(callLog')>>,
                                     iterations |-> max_iterations]
        /\ (/\ pc = "await"
            /\ Len(callLog') = Len(callLog) + 1
            /\ Last(callLog') \in ModelErrors
            /\ iteration < max_iterations - 1)
              => /\ messages' = messages
                 /\ iteration' = iteration + 1
                 /\ pc' = "loop"
                 /\ InRange(iteration', max_iterations)
                 /\ ret' = ret
      ]_vars

\* with a cap of two, the first model call raised, the conversation is
\* still the seed alone, and the second call raised and failed the
\* invocation with its message
C28_Witness ==
    /\ IsImpl
    /\ pc = "done"
    /\ max_iterations = 2
    /\ callLog = <<"fatal", "transient">>
    /\ messages = <<SeedMessage>>
    /\ ret = [kind |-> "value",
              value |-> [ok |-> FALSE, error |-> <<"transient">>,
                         iterations |-> 2]]

OpenAICall == func \in {"generate_spec", "review_code"}
OpenAITransient ==
    {"openai.RateLimitError", "openai.APITimeoutError",
     "openai.InternalServerError"}

\* the calls of the wrapped function that raised a transient error
TransientCalls == {i \in DOMAIN callLog : callLog[i] \in OpenAITransient}

\* C29: a function wrapped with with_retry(max_retries=3) is called at
\* most 4 times; when every call raised a transient provider error, the
\* wrapper ends after exactly 4 calls and raises the last of the errors;
\* a call that succeeds is the last one, and its value is returned.
C29_BoundedRetries ==
    OpenAICall
        => /\ Len(callLog) <= 4
           /\ (pc = "done" /\ TransientCalls = DOMAIN callLog)
                 => /\ Len(callLog) = 4
                    /\ ret = [kind |-> "raise", exc |-> callLog[4]]
           /\ \A i \in DOMAIN callLog :
                  callLog[i] = "json"
                      => /\ i = Len(callLog)
                         /\ pc = "done"
                         /\ ret.kind = "value"

\* generate_spec raised a transient error four times, the last one another
\* than the first, and the wrapper raised the last
C29_Witness ==
    /\ func = "generate_spec"
    /\ pc = "done"
    /\ Len(callLog) = 4
    /\ TransientCalls = 1..4
    /\ callLog[1] # callLog[4]
    /\ ret = [kind |-> "raise", exc |-> callLog[4]]

\* C30: the delays with_retry sleeps are 1, 2, 4 seconds, in this order:
\* backoff_factor^(k-1) before retry k, each double the one before; one
\* delay is slept after each of the first max_retries transient errors
\* and none after the last failed attempt or a non-transient error.
C30_BackoffSchedule ==
    OpenAICall
        => /\ sleeps = SubSeq(<<1, 2, 4>>, 1, Len(sleeps))
           /\ \A k \in DOMAIN sleeps : k > 1 => sleeps[k] = 2 * sleeps[k - 1]
           /\ Len(sleeps) = Cardinality(TransientCalls \cap 1..3)

\* after four transient errors the wrapper has slept 1, 2 and 4 seconds
\* and raised without a fourth delay
C30_Witness ==
    /\ func = "generate_spec"
    /\ pc = "done"
    /\ ret.kind = "raise"
    /\ TransientCalls = 1..4
    /\ sleeps = <<1, 2, 4>>


\* the calls of the wrapped function that raised another error
FatalCalls ==
    {i \in DOMAIN callLog : callLog[i] \notin OpenAITransient \cup {"json"}}

\* C31: a call of generate_spec / review_code that raises an error which
\* is not a rate-limit, timeout or server error (an empty or non-JSON
\* completion, raised as ValueError, included) is not retried: it is the
\* last call the wrapper makes, the wrapper raises that very error, and no
\* delay is slept for it; when it is the first call, the wrapper has made
\* one attempt and slept not at all.
C31_NonTransientNotRetried ==
    OpenAICall
        => \A i \in FatalCalls :
              /\ i = Len(callLog)
              /\ pc = "done"
              /\ ret = [kind |-> "raise", exc |-> callLog[i]]
              /\ Len(sleeps) = i - 1
              /\ attempt = i - 1
              /\ (i = 1 => sleeps = <<>>)

\* the first call of generate_spec returned a completion that is not
\* JSON, and the wrapper raised at once
C31_Witness ==
    /\ func = "generate_spec"
    /\ pc = "done"
    /\ callLog = <<"Invalid JSON response">>
    /\ sleeps = <<>>
    /\ ret = [kind |-> "raise", exc |-> "Invalid JSON response"]


(***************************************************************************)
(* Claims about the order of the driver's steps                            *)
(***************************************************************************)
\* the tool_use blocks among the first n blocks of a response
ToolUseIdx(content, n) ==
    {i \in DOMAIN content : i <= n /\ content[i].type = "tool_use"}
\* those of them that start a subprocess
SpawningIdx(content, n) ==
    {i \in ToolUseIdx(content, n) : content[i].name = "bash"}

\* the subprocesses the tool_use blocks of the assistant turns ask for
RECURSIVE SpawnsOf(_)
SpawnsOf(msgs) ==
    IF msgs = <<>> THEN 0
    ELSE (IF Head(msgs).role = "assistant"
          THEN Cardinality(SpawningIdx(Head(msgs).content,
                                       Len(Head(msgs).content)))
          ELSE 0) + SpawnsOf(Tail(msgs))



\* C32: during one invocation of implement_spec every tool_use block of
\* every response received is executed exactly once, whether its result
\* is ok=true or ok=false: a tool runs only in the step that moves on from
\* its block, that step collects the result, whatever its ok, as the
\* tool_result of the block, and the subprocesses started are as many as
\* the bash blocks the driver has been through.
C32_ToolsExecutedOnce ==
    [][IsImpl =>
        /\ (spawned' # spawned \/ toolCall' # toolCall \/ fs' # fs)
              => /\ pc = "blocks" /\ pc' = "blocks"
                 /\ blockIdx <= Len(response)
                 /\ response[blockIdx].type = "tool_use"
                 /\ response' = response
                 /\ blockIdx' = blockIdx + 1
                 /\ tool_results' =
                        Append(tool_results,
                               [type |-> "tool_result",
                                tool_use_id |-> response[blockIdx].id,
                                content |-> JsonDumps(toolResult')])
        /\ (pc' = "blocks")
              => Len(tool_results') =
                     Cardinality(ToolUseIdx(response', blockIdx' - 1))
        /\ spawned' = SpawnsOf(messages')
                         + (IF pc' = "blocks"
                            THEN Cardinality(SpawningIdx(response',
                                                         blockIdx' - 1))
                            ELSE 0)
      ]_vars

\* a bash block failed, was run once, its ok=false result went back to the
\* model in the user turn, and the model ended the invocation with a text
C32_Witness ==
    /\ IsImpl
    /\ pc = "done"
    /\ ret.value.ok
    /\ spawned = 1
    /\ Len(messages) = 4
    /\ messages[2].content = <<BlockBash>>
    /\ messages[3].role = "user"
    /\ messages[3].content[1].tool_use_id = BlockBash.id
    /\ ~messages[3].content[1].content[2].ok


\* the model calls issued and not yet answered
Outstanding == modelCalls - Len(callLog)

\* C33: the driver of implement_spec is strictly sequential.  At most one
\* model call is outstanding, and one is outstanding exactly while the
\* driver waits for it; a model call is issued only from the head of the
\* loop, after every block of the previous response has been gone through,
\* and never in a step that runs a tool; a tool runs only while no model
\* call is outstanding; the blocks of a response are gone through one at a
\* time in their order, each tool call being the one its block asks for,
\* and the results collected carry the blocks' ids in that order.
C33_StrictlySequential ==
    [][IsImpl =>
        /\ Outstanding' \in {0, 1}
        /\ (Outstanding' = 1) <=> (pc' = "await")
        /\ (modelCalls' # modelCalls)
              => /\ modelCalls' = modelCalls + 1
                 /\ pc = "loop"
                 /\ Outstanding = 0
                 /\ blockIdx = Len(response) + 1
                 /\ UNCHANGED <<fs, toolCall, toolResult, spawned>>
        /\ (spawned' # spawned \/ toolCall' # toolCall \/ fs' # fs)
              => /\ Outstanding = 0
                 /\ Outstanding' = 0
        /\ (blockIdx' # blockIdx)
              => \/ /\ pc = "await"
                    /\ blockIdx' = 1
                 \/ /\ pc = "blocks"
                    /\ blockIdx' = blockIdx + 1
                    /\ response' = response
                    /\ response[blockIdx].type = "tool_use"
                          => toolCall'.op = response[blockIdx].name
        /\ (pc' = "blocks")
              => LET uses ==
                         ToolUsesOf(SubSeq(response', 1, blockIdx' - 1))
                 IN  /\ Len(tool_results') = Len(uses)
                     /\ \A i \in DOMAIN uses :
                            tool_results'[i].tool_use_id = uses[i].id
      ]_vars

\* the write_file and the bash of one response have run, in this order,
\* and no model call is outstanding
C33_Witness ==
    /\ IsImpl
    /\ pc = "blocks"
    /\ response = <<BlockWrite, BlockBash>>
    /\ blockIdx = 3
    /\ toolCall.op = "bash"
    /\ Len(tool_results) = 2
    /\ tool_results[1].tool_use_id = BlockWrite.id
    /\ tool_results[2].tool_use_id = BlockBash.id
    /\ Outstanding = 0
    /\ modelCalls = 1


(***************************************************************************)
(* Claims about concurrent invocations                                     *)
(***************************************************************************)
\* both calls returned ok=true for the same target, which existed for
\* both, and the two copies were made before either write
BothCopiedFirst ==
    /\ \A w \in Writers :
          /\ writers.calls[w].pc = "done"
          /\ writers.calls[w].result[1].ok
          /\ writers.calls[w].had
    /\ writers.calls[1].target = writers.calls[2].target
    /\ Len(writers.log) = 4
    /\ writers.log[1][2] = "copy"
    /\ writers.log[2][2] = "copy"

\* C34: two write_file calls of two concurrent invocations on the same
\* existing path are not mutually excluded: both copies can be made before
\* either write, and then the backup file holds the original content and
\* not what the target held right before the last write, which is the
\* first writer's content; that content is backed up nowhere, while both
\* calls return ok=true naming the backup.
C34_WriteRace ==
    BothCopiedFirst
        => LET t      == writers.calls[1].target
               first  == writers.log[3][1]
               last   == writers.log[4][1]
               backup == BackupPath(t)
           IN  /\ first # last
               /\ IsFile(fs, backup)
               /\ fs[backup].content = FS0[t].content
               /\ writers.calls[last].overwrote = writers.calls[first].content
               /\ fs[backup].content # writers.calls[last].overwrote
               /\ fs[t].content = writers.calls[last].content
               /\ \A w \in Writers :
                      writers.calls[w].result[1].backup =
                          RelativeTo(backup, repo_root)

\* writer 1 and writer 2 copied, then writer 1 wrote c1 and writer 2 wrote
\* c2 over it: the backup still holds the original
C34_Witness ==
    /\ BothCopiedFirst
    /\ writers.log = << <<1, "copy">>, <<2, "copy">>,
                        <<1, "write">>, <<2, "write">> >>
    /\ writers.calls[1].content = "c1"
    /\ writers.calls[2].content = "c2"
    /\ fs[<<NmR, NmF>>].content = "c2"
    /\ fs[<<NmR, NmF \o BakSuffix>>].content = "oversize"
    /\ writers.calls[2].overwrote = "c1"


(***************************************************************************)
(* Claims about the output of bash                                         *)
(***************************************************************************)
\* the last k characters of a stream whose text is no longer than k
Suffix(x, k) == Stream(k - Len(x.text), x.text)

\* C35: for every bash command that runs to completion, stdout and stderr
\* of the result are each at most 8000 characters long and each is the last
\* min(8000, length) characters of the stream captured; ok is
\* (returncode = 0).
C35_OutputBounding ==
    (toolCall.op = "bash" /\ toolCall.run
        /\ toolCall.outcome \in {"exit0", "exit1"})
        => /\ \A f \in {"stdout", "stderr"} :
                LET got == toolCall.captured[f]
                    k   == IF StreamLen(got) < 8000
                           THEN StreamLen(got) ELSE 8000
                IN  /\ f \in DOMAIN toolResult
                    /\ StreamLen(toolResult[f]) <= 8000
                    /\ StreamLen(toolResult[f]) = k
                    /\ toolResult[f] = Suffix(got, k)
           /\ toolResult.ok <=> (toolResult.returncode = 0)

\* a command exited non-zero having printed 8003 characters to stdout and
\* 8001 to stderr: each is cut to its last 8000
C35_Witness ==
    /\ toolCall.op = "bash" /\ toolCall.run
    /\ toolCall.outcome = "exit1"
    /\ StreamLen(toolCall.captured.stdout) = 8003
    /\ StreamLen(toolCall.captured.stderr) = 8001
    /\ toolResult.stdout = Stream(7997, "out")
    /\ toolResult.stderr = Stream(7997, "out")
    /\ ~toolResult.ok


(***************************************************************************)
(* Claims about the conversation                                           *)
(***************************************************************************)
\* the turn answers the tool_use blocks of the assistant turn before it
AnswersToolUses(turn, content) ==
    LET uses == ToolUsesOf(content)
    IN  /\ turn.role = "user"
        /\ Len(turn.content) = Len(uses)
        /\ \A i \in DOMAIN uses :
              /\ turn.content[i].type = "tool_result"
              /\ turn.content[i].tool_use_id = uses[i].id

\* seed, assistant, user, assistant, ...; the user turns after the seed
\* are tool results; an assistant turn with tool_use blocks is followed by
\* their results, one without them ends the list
ConversationShape(m) ==
    /\ m # <<>>
    /\ m[1] = SeedMessage
    /\ \A i \in DOMAIN m :
          /\ m[i].role = IF i % 2 = 1 THEN "user" ELSE "assistant"
          /\ (i > 1 /\ m[i].role = "user")
                => /\ m[i] # SeedMessage
                   /\ HasToolUse(m[i - 1].content)
                   /\ AnswersToolUses(m[i], m[i - 1].content)
          /\ (m[i].role = "assistant" /\ HasToolUse(m[i].content))
                => /\ i < Len(m)
                   /\ AnswersToolUses(m[i + 1], m[i].content)
          /\ (m[i].role = "assistant" /\ ~HasToolUse(m[i].content))
                => i = Len(m)

\* C36: at every point of an invocation of implement_spec the message list
\* starts with the one seed user turn and alternates user, assistant,
\* user, ...; an assistant turn holding tool_use blocks is directly
\* followed by a user turn of their tool results, and is so before the
\* next model call, which is sent the list ending in a user turn; the list
\* only grows by appending.
C36_ConversationShape ==
    [][IsImpl =>
        /\ (pc' # "wrapper") => ConversationShape(messages')
        /\ (pc # "wrapper")
              => /\ Len(messages') >= Len(messages)
                 /\ SubSeq(messages', 1, Len(messages)) = messages
        /\ (modelCalls' # modelCalls)
              => /\ request' = messages
                 /\ Last(messages).role = "user"
      ]_vars

\* a round of two tool uses, then a text: four turns, alternating from the
\* seed, the last one the assistant's
C36_Witness ==
    /\ IsImpl
    /\ pc = "done"
    /\ Len(messages) = 4
    /\ ConversationShape(messages)
    /\ Len(ToolUsesOf(messages[2].content)) = 2
    /\ Len(messages[3].content) = 2
    /\ ~HasToolUse(messages[4].content)


(***************************************************************************)
(* Claims about successive writes                                          *)
(***************************************************************************)
\* C37: after two successive successful write_file calls on the same path,
\* which held a content c0 before the first, the first writing c1 and the
\* second c2, the target holds c2 and the backup file holds c1; c0 is
\* stored in neither of the two files any more.
C37_SingleBackupSlot ==
    [][(/\ toolCall.op = "write_file"
        /\ toolResult.ok
        /\ "backup" \in DOMAIN toolResult
        /\ opsDone' = opsDone + 1
        /\ toolCall'.op = "write_file"
        /\ toolResult'.ok
        /\ toolCall'.target = toolCall.target)
          => LET t == toolCall.target
                 b == BackupPath(t)
             IN  /\ IsFile(fs', t)
                 /\ fs'[t].content = toolCall'.content
                 /\ IsFile(fs', b)
                 /\ fs'[b].content = toolCall.content
                 /\ toolResult'.backup = RelativeTo(b, repo_root)
       ]_vars


(***************************************************************************)
(* Claims about the iteration cap                                          *)
(***************************************************************************)
\* C38: the cap of implement_spec is its max_iterations argument when that
\* is an integer other than 0, and config.max_iterations, 50 by default,
\* when the argument is omitted or 0; under a negative cap no model call is
\* made and the invocation returns ok=false with the 'Maximum iterations'
\* error.
C38_EffectiveCap ==
    (IsImpl /\ pc # "wrapper")
        => /\ (capArg # <<>> /\ capArg[1] # 0) => max_iterations = capArg[1]
           /\ (capArg = <<>> \/ capArg = <<0>>)
                 => max_iterations = cfg.max_iterations
           /\ AIDevConfig(EmptyData).max_iterations = 50
           /\ modelCalls <= (IF max_iterations > 0 THEN max_iterations ELSE 0)
           /\ (max_iterations < 0)
                 => /\ modelCalls = 0
                    /\ pc \in {"loop", "done"}
                    /\ (pc = "done")
                          => ret = [kind |-> "value",
                                    value |-> [ok |-> FALSE,
                                               error |-> <<"Maximum iterations",
                                                           max_iterations>>,
                                               iterations |-> max_iterations]]

\* called with max_iterations=-1, the invocation ended without a model
\* call
C38_Witness ==
    /\ IsImpl
    /\ pc = "done"
    /\ capArg = <<-1>>
    /\ max_iterations = -1
    /\ modelCalls = 0
    /\ callLog = <<>>
    /\ ~ret.value.ok
    /\ ret.value.error[1] = "Maximum iterations"


(***************************************************************************)
(* Claims about the confirmation prompts                                   *)
(***************************************************************************)
\* the diff patch got from git_diff is empty
EmptyDiff == cli.diff # <<>> /\ Strip(cli.diff[1]) = <<>>

\* C39: when require_confirmation is true, --auto-confirm is not given and
\* the user declines the prompt, implement makes no model call and runs no
\* tool, and the repository is as it was; patch --apply stages nothing
\* when the user declines or when the diff is empty: git_apply is not
\* called and git diff is the one subprocess started.
C39_ConfirmationGate ==
    /\ (/\ cli.command = "implement"
        /\ cfg.require_confirmation
        /\ ~cli.auto_confirm
        /\ cli.answer = <<FALSE>>)
          => /\ cli.pc = "exited"
             /\ modelCalls = 0
             /\ callLog = <<>>
             /\ func = "none"
             /\ toolCall.op = "none"
             /\ spawned = 0
             /\ cli.constructed = {}
             /\ fs = FS0
    /\ (/\ cli.command = "patch"
        /\ cli.apply
        /\ (cli.answer = <<FALSE>> \/ EmptyDiff))
          => /\ cli.pc = "exited"
             /\ cli.exit = <<0>>
             /\ toolCall.op = "git_diff"
             /\ spawned = 1
             /\ modelCalls = 0
             /\ fs = FS0

\* patch --apply showed a diff, the user declined, and the command ended
\* after the one git diff
C39_Witness ==
    /\ cli.command = "patch"
    /\ cli.apply
    /\ cfg.require_confirmation
    /\ ~EmptyDiff
    /\ cli.answer = <<FALSE>>
    /\ cli.console = <<"Patch application cancelled">>
    /\ toolCall.op = "git_diff"
    /\ spawned = 1

=============================================================================
